---- MODULE Spec2Model ----
(***************************************************************************)
(* Model of the upload/storage core of Private_Storage                     *)
(* (src/app/utils.py, src/app/routes_main.py, src/app/models.py).          *)
(*                                                                         *)
(* Names are sequences of one-character strings, so that the code's        *)
(* character-level operations (str.startswith, os.path.join, normpath,     *)
(* splitext, re.sub) are computed as the code computes them.  Paths follow *)
(* posixpath.  The file system is a function from canonical absolute       *)
(* paths (sequences of components) to nodes; system calls resolve a path   *)
(* component by component, as the kernel does.                             *)
(***************************************************************************)
EXTENDS Integers, Sequences, FiniteSets, TLC

VARIABLES fs, used, last, req, users_db

vars == <<fs, used, last, req, users_db>>

(***************************************************************************)
(* Strings.  A name is a sequence of characters.  A path string is kept as *)
(* the list str.split('/') gives for it (a non-empty sequence of names     *)
(* without "/"): "/u/1" is <<"", "u", "1">>, "d/" is <<"d", "">> and the   *)
(* empty string is <<"">>.  The list determines the string and the string  *)
(* the list, so every string operation below is the code's operation       *)
(* carried over to the list.                                               *)
(***************************************************************************)
\* a local variable: value v is computed once and named in Op
Bind(v, Op(_)) == Op(v)

EmptyName == <<>>

EmptyPath == <<EmptyName>>

\* name.startswith(prefix), character by character
RECURSIVE NameStartsWith(_, _)
NameStartsWith(s, prefix) ==
    IF prefix = <<>> THEN TRUE
    ELSE IF s = <<>> THEN FALSE
    ELSE Head(s) = Head(prefix) /\ NameStartsWith(Tail(s), Tail(prefix))

\* path.startswith(prefix) for two path strings: the components before the
\* last one of prefix are equal and its last one is a prefix of the
\* component of path at that place
StartsWith(path, prefix) ==
    LET n == Len(prefix) IN
    /\ n <= Len(path)
    /\ \A i \in 1..(n - 1) : path[i] = prefix[i]
    /\ NameStartsWith(path[n], prefix[n])

\* a + b for two path strings
StrCat(a, b) ==
    SubSeq(a, 1, Len(a) - 1) \o <<a[Len(a)] \o b[1]>> \o Tail(b)

\* the path string of a name; a name holding "/" is split at it
RECURSIVE SplitAcc(_, _, _)
SplitAcc(s, cur, acc) ==
    IF s = <<>> THEN Append(acc, cur)
    ELSE IF Head(s) = "/" THEN SplitAcc(Tail(s), <<>>, Append(acc, cur))
    ELSE SplitAcc(Tail(s), Append(cur, Head(s)), acc)

AsPath(name) ==
    IF \A i \in 1..Len(name) : name[i] # "/" THEN <<name>>
    ELSE SplitAcc(name, <<>>, <<>>)

\* len(path)
RECURSIVE PathLen(_)
PathLen(path) ==
    IF Len(path) = 1 THEN Len(path[1])
    ELSE Len(path[1]) + 1 + PathLen(Tail(path))

\* path.replace('\\', '/'): a component holding "\" is split at it
RECURSIVE SplitBackslash(_, _, _)
SplitBackslash(s, cur, acc) ==
    IF s = <<>> THEN Append(acc, cur)
    ELSE IF Head(s) = "\\" THEN SplitBackslash(Tail(s), <<>>, Append(acc, cur))
    ELSE SplitBackslash(Tail(s), Append(cur, Head(s)), acc)

RECURSIVE ReplaceBackslash(_)
ReplaceBackslash(path) ==
    IF \A i \in 1..Len(path) : \A j \in 1..Len(path[i]) : path[i][j] # "\\" THEN path
    ELSE IF Len(path) = 1 THEN SplitBackslash(path[1], <<>>, <<>>)
    ELSE SplitBackslash(path[1], <<>>, <<>>) \o ReplaceBackslash(Tail(path))

DigitChars == <<"0", "1", "2", "3", "4", "5", "6", "7", "8", "9">>

\* str(n) for n >= 0
RECURSIVE IntToStr(_)
IntToStr(n) ==
    IF n < 10 THEN <<DigitChars[n + 1]>>
    ELSE Append(IntToStr(n \div 10), DigitChars[(n % 10) + 1])

(***************************************************************************)
(* posixpath                                                               *)
(***************************************************************************)
IsAbs(path) == Len(path) >= 2 /\ path[1] = EmptyName

EndsWithSlash(path) == Len(path) >= 2 /\ path[Len(path)] = EmptyName

\* os.path.join(a, b)
PathJoin(a, b) ==
    IF IsAbs(b) THEN b
    ELSE IF a = EmptyPath \/ EndsWithSlash(a) THEN StrCat(a, b)
    ELSE a \o b

\* the component loop of os.path.normpath, for an absolute path
RECURSIVE NormAcc(_, _)
NormAcc(comps, new) ==
    IF comps = <<>> THEN new
    ELSE LET c == Head(comps) IN
         IF c = <<>> \/ c = <<".">> THEN NormAcc(Tail(comps), new)
         ELSE IF c # <<".", ".">> THEN NormAcc(Tail(comps), Append(new, c))
         ELSE IF new # <<>> THEN NormAcc(Tail(comps), SubSeq(new, 1, Len(new) - 1))
         ELSE NormAcc(Tail(comps), new)

\* the components of os.path.abspath(p); every path the code builds starts
\* with UPLOAD_FOLDER or is an absolute path given by the client
AbsComps(p) == NormAcc(p, <<>>)

\* os.path.abspath(p), as a path string
AbsPath(p) ==
    Bind(AbsComps(p), LAMBDA comps :
        IF comps = <<>> THEN <<EmptyName, EmptyName>> ELSE <<EmptyName>> \o comps)

RECURSIVE RStripSlashes(_)
RStripSlashes(path) ==
    IF Len(path) >= 2 /\ path[Len(path)] = EmptyName
    THEN RStripSlashes(SubSeq(path, 1, Len(path) - 1))
    ELSE path

\* os.path.split(p): head is a path string, tail a name
PathSplit(p) ==
    LET n    == Len(p)
        head == IF n = 1 THEN EmptyPath ELSE Append(SubSeq(p, 1, n - 1), EmptyName)
    IN  [head |-> IF \A i \in 1..Len(head) : head[i] = EmptyName THEN head
                  ELSE RStripSlashes(head),
         tail |-> p[n]]

\* str.rfind(ch) + 1: the 1-based position of the last ch, 0 when absent
RECURSIVE RFind1(_, _, _)
RFind1(s, ch, i) ==
    IF i = 0 THEN 0
    ELSE IF s[i] = ch THEN i
    ELSE RFind1(s, ch, i - 1)

\* os.path.splitext(name), for a name without separators
SplitExt(name) ==
    Bind(RFind1(name, ".", Len(name)), LAMBDA d :
        IF d > 0 /\ \E i \in 1..(d - 1) : name[i] # "."
        THEN [base |-> SubSeq(name, 1, d - 1), ext |-> SubSeq(name, d, Len(name))]
        ELSE [base |-> name, ext |-> <<>>])

(***************************************************************************)
(* File system.  fs maps the canonical path of every existing node (the    *)
(* sequence of its components from "/") to the node.  A regular file holds *)
(* either raw bytes or, when it was written by json.dump, the JSON text of *)
(* a metadata document (kept as the document itself).                      *)
(***************************************************************************)
EmptyDoc == <<>>

DirNode == [k |-> "dir", raw |-> <<>>, json |-> FALSE, doc |-> EmptyDoc]

RawFile(b) == [k |-> "file", raw |-> b, json |-> FALSE, doc |-> EmptyDoc]

JsonFile(d) == [k |-> "file", raw |-> <<>>, json |-> TRUE, doc |-> d]

IsPrefixSeq(a, b) ==
    Len(a) <= Len(b) /\ SubSeq(b, 1, Len(a)) = a

(***************************************************************************)
(* json.dump of a metadata document: an entry is either the structured     *)
(* record {"hash": h, "share_token": t} or a legacy bare digest string.    *)
(* A digest is 64 hexadecimal characters, a share token a 36-character     *)
(* uuid, so the length of the JSON text follows from the keys.             *)
(***************************************************************************)
NoToken == <<>>

Entry(h, t) == [isstr |-> FALSE, hash |-> h, share_token |-> t]

LegacyEntry(h) == [isstr |-> TRUE, hash |-> h, share_token |-> NoToken]

HexDigestLen == 64

UuidLen == 36

\* len(json.dumps(value)) of one entry value
JsonValueLen(e) ==
    IF e.isstr THEN HexDigestLen + 2
    ELSE 1 + 8 + (HexDigestLen + 2) + 2 + 15
         + (IF e.share_token = NoToken THEN 4 ELSE UuidLen + 2) + 1

RECURSIVE JsonItemsLen(_, _)
JsonItemsLen(d, keys) ==
    IF keys = {} THEN 0
    ELSE LET key == CHOOSE x \in keys : TRUE
         IN  (PathLen(key) + 2) + 2 + JsonValueLen(d[key])
             + (IF keys = {key} THEN 0 ELSE 2)
             + JsonItemsLen(d, keys \ {key})

\* len(json.dumps(d))
JsonLen(d) == 2 + JsonItemsLen(d, DOMAIN d)

\* os.path.getsize of a regular file
NodeSize(node) == IF node.json THEN JsonLen(node.doc) ELSE Len(node.raw)

RECURSIVE SumSizes(_, _)
SumSizes(f, S) ==
    IF S = {} THEN 0
    ELSE LET x == CHOOSE y \in S : TRUE
         IN  NodeSize(f[x]) + SumSizes(f, S \ {x})

\* path resolution by the kernel, component by component, from node at
RECURSIVE WalkFrom(_, _, _)
WalkFrom(f, at, comps) ==
    IF comps = <<>> THEN [e |-> "ok", at |-> at, rest |-> <<>>]
    ELSE IF f[at].k # "dir" THEN [e |-> "notdir", at |-> at, rest |-> comps]
    ELSE LET c == Head(comps) IN
         IF c = <<>> \/ c = <<".">> THEN WalkFrom(f, at, Tail(comps))
         ELSE IF c = <<".", ".">>
              THEN WalkFrom(f, IF at = <<>> THEN at ELSE SubSeq(at, 1, Len(at) - 1),
                            Tail(comps))
         ELSE IF Append(at, c) \in DOMAIN f THEN WalkFrom(f, Append(at, c), Tail(comps))
         ELSE [e |-> "noent", at |-> Append(at, c), rest |-> Tail(comps)]

Stat(f, p) == WalkFrom(f, <<>>, p)

\* os.path.exists / isdir / isfile
Exists(f, p) == Stat(f, p).e = "ok"

IsDir(f, p) == Bind(Stat(f, p), LAMBDA st : st.e = "ok" /\ f[st.at].k = "dir")

IsFile(f, p) == Bind(Stat(f, p), LAMBDA st : st.e = "ok" /\ f[st.at].k = "file")

OnlySlashes(rest) == \A i \in 1..Len(rest) : rest[i] = <<>>

Ok(f) == [ok |-> TRUE, fs |-> f, exc |-> "none"]

Raise(f, exc) == [ok |-> FALSE, fs |-> f, exc |-> exc]

\* os.mkdir(p)
Mkdir(f, p) ==
    Bind(Stat(f, p), LAMBDA st :
        IF st.e = "ok" THEN Raise(f, "FileExistsError")
        ELSE IF st.e = "notdir" THEN Raise(f, "NotADirectoryError")
        ELSE IF OnlySlashes(st.rest) THEN Ok(st.at :> DirNode @@ f)
        ELSE Raise(f, "FileNotFoundError"))

\* os.makedirs(name), exist_ok = False
RECURSIVE Makedirs(_, _)
Makedirs(f, name) ==
    Bind(PathSplit(name), LAMBDA s1 :
    Bind(IF s1.tail = EmptyName THEN PathSplit(s1.head) ELSE s1, LAMBDA s :
        IF s.head # EmptyPath /\ s.tail # EmptyName /\ ~Exists(f, s.head)
        THEN Bind(Makedirs(f, s.head), LAMBDA r :
                 IF ~r.ok /\ r.exc # "FileExistsError" THEN r
                 ELSE IF s.tail = <<".">> THEN Ok(r.fs)
                 ELSE Mkdir(r.fs, name))
        ELSE Mkdir(f, name)))

\* open(p, 'w') / open(p, 'wb') followed by writing the whole content
WriteFile(f, p, node) ==
    Bind(Stat(f, p), LAMBDA st :
        IF st.e = "ok"
        THEN IF f[st.at].k = "dir" THEN Raise(f, "IsADirectoryError")
             ELSE Ok([f EXCEPT ![st.at] = node])
        ELSE IF st.e = "notdir" THEN Raise(f, "NotADirectoryError")
        ELSE IF st.rest = <<>> THEN Ok(st.at :> node @@ f)
        ELSE IF OnlySlashes(st.rest) THEN Raise(f, "IsADirectoryError")
        ELSE Raise(f, "FileNotFoundError"))

\* os.remove(p)
Remove(f, p) ==
    Bind(Stat(f, p), LAMBDA st :
        IF st.e = "ok" /\ f[st.at].k = "file"
        THEN Ok([x \in DOMAIN f \ {st.at} |-> f[x]])
        ELSE IF st.e = "ok" THEN Raise(f, "IsADirectoryError")
        ELSE Raise(f, "FileNotFoundError"))

LastName(p) == PathSplit(RStripSlashes(p)).tail

\* shutil.rmtree(p): the content of the directory is removed, then the
\* directory itself with os.rmdir(p), which fails for a path ending in
\* "." or ".." and for the root
RmTree(f, p) ==
    Bind(Stat(f, p), LAMBDA st :
        IF st.e # "ok" THEN Raise(f, "FileNotFoundError")
        ELSE IF f[st.at].k # "dir" THEN Raise(f, "NotADirectoryError")
        ELSE IF st.at = <<>> \/ LastName(p) \in {<<".">>, <<".", ".">>}
        THEN Raise([x \in {y \in DOMAIN f : ~IsPrefixSeq(st.at, y) \/ y = st.at} |-> f[x]],
                   "OSError")
        ELSE Ok([x \in {y \in DOMAIN f : ~IsPrefixSeq(st.at, y)} |-> f[x]]))

\* the names in directory at (os.listdir)
ListDir(f, at) ==
    {x[Len(x)] : x \in {y \in DOMAIN f : Len(y) = Len(at) + 1 /\ IsPrefixSeq(at, y)}}

\* the regular files below directory at, at any depth (os.walk)
WalkFiles(f, at) ==
    {x \in DOMAIN f : IsPrefixSeq(at, x) /\ x # at /\ f[x].k = "file"}

(***************************************************************************)
(* src/config.py and the pure helpers of src/app/utils.py                  *)
(***************************************************************************)
\* Config.UPLOAD_FOLDER: an absolute directory, here /u
UPLOAD_FOLDER == <<EmptyName, <<"u">>>>

TempName == <<"t", "e", "m", "p">>

MetadataName == <<"m", "e", "t", "a", "d", "a", "t", "a", ".", "j", "s", "o", "n">>

ForbiddenChars == {"\\", "/", ":", "*", "?", "\"", "<", ">", "|"}

Whitespace == {" "}

RECURSIVE LStripDots(_)
LStripDots(s) ==
    IF s # <<>> /\ Head(s) = "." THEN LStripDots(Tail(s)) ELSE s

RECURSIVE LStripSpace(_)
LStripSpace(s) ==
    IF s # <<>> /\ Head(s) \in Whitespace THEN LStripSpace(Tail(s)) ELSE s

RECURSIVE RStripSpace(_)
RStripSpace(s) ==
    IF s # <<>> /\ s[Len(s)] \in Whitespace THEN RStripSpace(SubSeq(s, 1, Len(s) - 1))
    ELSE s

\* the combining acute accent U+0301, written here as the spacing accent
CombiningAcute == "´"

\* unicodedata.normalize("NFC", s) over the characters of the model: "e"
\* followed by the combining accent composes to "é"
RECURSIVE Nfc(_)
Nfc(s) ==
    IF Len(s) < 2 THEN s
    ELSE IF s[1] = "e" /\ s[2] = CombiningAcute THEN <<"é">> \o Nfc(Tail(Tail(s)))
    ELSE <<s[1]>> \o Nfc(Tail(s))

\* safe_filename: the name is normalised to NFC, forbidden characters become
\* "_", a leading run of dots becomes one "_", surrounding whitespace is
\* stripped
safe_filename(filename) ==
    IF filename = <<>> THEN <<>>
    ELSE Bind([i \in 1..Len(Nfc(filename)) |->
                  IF Nfc(filename)[i] \in ForbiddenChars THEN "_" ELSE Nfc(filename)[i]],
              LAMBDA a :
             RStripSpace(LStripSpace(IF Head(a) = "." THEN <<"_">> \o LStripDots(a) ELSE a)))

allowed_file(filename) == TRUE

\* has_space with the bound left out: an upload that fills the quota
\* exactly is refused
has_space_below(used_bytes, quota_bytes, size) ==
    used_bytes + size < quota_bytes

\* User.has_space
has_space(used_bytes, quota_bytes, size) ==
    used_bytes + size <= quota_bytes

(***************************************************************************)
(* Content digest.  SHA-256 is taken to be collision free: the digest of a *)
(* byte string is modelled by the bytes fed to the hash, block by block;   *)
(* the digest of the JSON text of a metadata document is a value that no   *)
(* digest of uploaded bytes equals.                                        *)
(***************************************************************************)
HashBlockSize == 4096

JsonDigest == <<-1>>

RECURSIVE Sha256Blocks(_, _)
Sha256Blocks(state, rest) ==
    IF rest = <<>> THEN state
    ELSE LET n == IF Len(rest) < HashBlockSize THEN Len(rest) ELSE HashBlockSize
         IN  Sha256Blocks(state \o SubSeq(rest, 1, n), SubSeq(rest, n + 1, Len(rest)))

\* calculate_file_hash(file_stream)
calculate_file_hash(data) == Sha256Blocks(<<>>, data)

\* calculate_file_hash_from_path(file_path), for an existing regular file
calculate_file_hash_from_path(f, file_path) ==
    Bind(f[Stat(f, file_path).at], LAMBDA node :
        IF node.json THEN JsonDigest ELSE Sha256Blocks(<<>>, node.raw))

(***************************************************************************)
(* Directories and the metadata document                                   *)
(***************************************************************************)
UserDir(user_id) == PathJoin(UPLOAD_FOLDER, AsPath(user_id))

TempDir(user_id) == PathJoin(PathJoin(UPLOAD_FOLDER, AsPath(TempName)), AsPath(user_id))

ChunkDir(user_id, upload_id) == PathJoin(TempDir(user_id), AsPath(upload_id))

\* get_user_upload_dir: creates the user's root when it is missing
get_user_upload_dir(f, user_id) ==
    IF Exists(f, UserDir(user_id)) THEN Ok(f) ELSE Makedirs(f, UserDir(user_id))

get_metadata_path(user_id) == PathJoin(UserDir(user_id), AsPath(MetadataName))

\* save_metadata
save_metadata(f, user_id, metadata) ==
    Bind(get_user_upload_dir(f, user_id), LAMBDA d :
        IF ~d.ok THEN d
        ELSE WriteFile(d.fs, get_metadata_path(user_id), JsonFile(metadata)))

Loaded(f, doc) == [ok |-> TRUE, fs |-> f, exc |-> "none", doc |-> doc]

\* load_metadata without the conversion of the bare-string entries
load_metadata_unconverted(f, user_id) ==
    Bind(get_user_upload_dir(f, user_id), LAMBDA d :
        IF ~d.ok THEN [ok |-> FALSE, fs |-> d.fs, exc |-> d.exc, doc |-> EmptyDoc]
        ELSE
    Bind(Stat(d.fs, get_metadata_path(user_id)), LAMBDA st :
        IF st.e # "ok" THEN Loaded(d.fs, EmptyDoc)
        ELSE IF d.fs[st.at].k # "file" \/ ~d.fs[st.at].json THEN Loaded(d.fs, EmptyDoc)
        ELSE Loaded(d.fs, d.fs[st.at].doc)))

\* load_metadata: a missing or unreadable document is the empty mapping;
\* bare-string entries are converted and the document written back
load_metadata(f, user_id) ==
    Bind(get_user_upload_dir(f, user_id), LAMBDA d :
        IF ~d.ok THEN [ok |-> FALSE, fs |-> d.fs, exc |-> d.exc, doc |-> EmptyDoc]
        ELSE
    Bind(Stat(d.fs, get_metadata_path(user_id)), LAMBDA st :
        IF st.e # "ok" THEN Loaded(d.fs, EmptyDoc)
        ELSE IF d.fs[st.at].k # "file" \/ ~d.fs[st.at].json THEN Loaded(d.fs, EmptyDoc)
        ELSE
    Bind(d.fs[st.at].doc, LAMBDA data :
        IF \A key \in DOMAIN data : ~data[key].isstr THEN Loaded(d.fs, data)
        ELSE
    Bind([key \in DOMAIN data |->
             IF data[key].isstr THEN Entry(data[key].hash, NoToken) ELSE data[key]],
         LAMBDA conv :
    Bind(save_metadata(d.fs, user_id, conv), LAMBDA w :
        IF w.ok THEN Loaded(w.fs, conv) ELSE Loaded(w.fs, EmptyDoc))))))

\* the chunks in flight counted as nothing
get_temp_usage_zero(f, user_id) == 0

\* get_temp_usage
get_temp_usage(f, user_id) ==
    Bind(Stat(f, TempDir(user_id)), LAMBDA st :
        IF st.e = "ok" THEN SumSizes(f, WalkFiles(f, st.at)) ELSE 0)

(***************************************************************************)
(* The store operations of src/app/utils.py.  Each returns the file system *)
(* it leaves and what it returns: status "ok" (with the value ret), "err"  *)
(* (with the error message err; n is the index of "Missing chunk n") or    *)
(* "exc" (an exception escaped, err names it).                             *)
(***************************************************************************)
None == <<>>

Return(f, ret) == [fs |-> f, status |-> "ok", ret |-> ret, err |-> "", n |-> -1]

Error(f, msg) == [fs |-> f, status |-> "err", ret |-> None, err |-> msg, n |-> -1]

MissingChunk(f, i) ==
    [fs |-> f, status |-> "err", ret |-> None, err |-> "Missing chunk", n |-> i]

Exception(r) == [fs |-> r.fs, status |-> "exc", ret |-> None, err |-> r.exc, n |-> -1]

\* the security check left out: every path is accepted
SecurityCheckOff(full_path, upload_dir) == TRUE

\* the security check of save_file, merge_chunks, get_user_files,
\* create_user_folder, delete_user_folder and get_zip_contents
SecurityCheck(full_path, upload_dir) ==
    StartsWith(AbsPath(full_path), AbsPath(upload_dir))

\* the auto-rename loop: base_1.ext, base_2.ext, ... until the path is free
RECURSIVE RenameLoop(_, _, _, _, _)
RenameLoop(f, target_dir, filename, split, counter) ==
    IF ~Exists(f, PathJoin(target_dir, AsPath(filename))) THEN filename
    ELSE RenameLoop(f, target_dir,
                    split.base \o <<"_">> \o IntToStr(counter) \o split.ext,
                    split, counter + 1)

\* the auto-rename loop left out: the requested name is used as it is
AutoRenameOff(f, target_dir, filename) == filename

AutoRename(f, target_dir, filename) ==
    RenameLoop(f, target_dir, filename, SplitExt(filename), 1)

\* the metadata key of a committed file
MetaKey(subpath, filename) ==
    IF subpath # EmptyPath THEN ReplaceBackslash(PathJoin(subpath, AsPath(filename)))
    ELSE AsPath(filename)

\* the tail shared by save_file and merge_chunks: record the digest
CommitMetadata(f, user_id, subpath, filename, file_hash) ==
    Bind(load_metadata(f, user_id), LAMBDA lm :
        IF ~lm.ok THEN Exception(lm)
        ELSE
    Bind(save_metadata(lm.fs, user_id,
                       (MetaKey(subpath, filename) :> Entry(file_hash, NoToken)) @@ lm.doc),
         LAMBDA sm :
        IF ~sm.ok THEN Exception(sm) ELSE Return(sm.fs, filename)))

\* the folder an upload goes to
TargetDir(user_id, subpath) == PathJoin(UserDir(user_id), subpath)

\* the file name an upload asks for
UploadName(name, uuid) ==
    Bind(safe_filename(name), LAMBDA safe : IF safe = <<>> THEN uuid ELSE safe)

\* if not os.path.exists(target_dir): os.makedirs(target_dir)
EnsureDir(f, target_dir) ==
    IF Exists(f, target_dir) THEN Ok(f) ELSE Makedirs(f, target_dir)

\* save_file(file, user, subpath); uuid is the name uuid4 would give
save_file(f, user_id, used_bytes, quota_bytes, name, data, subpath, uuid) ==
    IF name = <<>> \/ ~allowed_file(name) THEN Error(f, "Invalid file type.")
    ELSE IF ~has_space(used_bytes, quota_bytes, Len(data) + get_temp_usage(f, user_id))
    THEN Error(f, "Quota exceeded.")
    ELSE
    Bind(get_user_upload_dir(f, user_id), LAMBDA d1 :
        IF ~d1.ok THEN Exception(d1)
        ELSE IF ~SecurityCheck(TargetDir(user_id, subpath), UserDir(user_id))
        THEN Error(d1.fs, "Invalid path")
        ELSE
    Bind(EnsureDir(d1.fs, TargetDir(user_id, subpath)), LAMBDA d2 :
        IF ~d2.ok THEN Exception(d2)
        ELSE
    Bind(AutoRename(d2.fs, TargetDir(user_id, subpath), UploadName(name, uuid)), LAMBDA chosen :
    Bind(WriteFile(d2.fs, PathJoin(TargetDir(user_id, subpath), AsPath(chosen)), RawFile(data)),
         LAMBDA w :
        IF ~w.ok THEN Exception(w)
        ELSE CommitMetadata(w.fs, user_id, subpath, chosen, calculate_file_hash(data))))))

\* get_chunk_dir: creates the chunk directory when it is missing
get_chunk_dir(f, user_id, upload_id) ==
    IF Exists(f, ChunkDir(user_id, upload_id)) THEN Ok(f)
    ELSE Makedirs(f, ChunkDir(user_id, upload_id))

ChunkPath(user_id, upload_id, i) ==
    PathJoin(ChunkDir(user_id, upload_id), AsPath(IntToStr(i)))

\* save_chunk that keeps a chunk already stored under the index
save_chunk_once(f, user_id, upload_id, chunk_index, data, used_bytes, quota) ==
    IF ~has_space(used_bytes, quota, Len(data) + get_temp_usage(f, user_id))
    THEN Error(f, "Quota exceeded.")
    ELSE
    Bind(get_chunk_dir(f, user_id, upload_id), LAMBDA d :
        IF ~d.ok THEN Exception(d)
        ELSE IF Exists(d.fs, ChunkPath(user_id, upload_id, chunk_index))
        THEN Return(d.fs, None)
        ELSE
    Bind(WriteFile(d.fs, ChunkPath(user_id, upload_id, chunk_index), RawFile(data)), LAMBDA w :
        IF ~w.ok THEN Exception(w) ELSE Return(w.fs, None)))

\* save_chunk
save_chunk(f, user_id, upload_id, chunk_index, data, used_bytes, quota_bytes) ==
    IF ~has_space(used_bytes, quota_bytes, Len(data) + get_temp_usage(f, user_id))
    THEN Error(f, "Quota exceeded.")
    ELSE
    Bind(get_chunk_dir(f, user_id, upload_id), LAMBDA d :
        IF ~d.ok THEN Exception(d)
        ELSE
    Bind(WriteFile(d.fs, ChunkPath(user_id, upload_id, chunk_index), RawFile(data)), LAMBDA w :
        IF ~w.ok THEN Exception(w) ELSE Return(w.fs, None)))

\* the return values True and False
RetTrue == <<"T">>

RetFalse == <<"F">>

\* delete_upload_chunks that reports success and removes nothing
delete_upload_chunks_kept(f, user_id, upload_id) ==
    IF Exists(f, ChunkDir(user_id, upload_id)) THEN Return(f, RetTrue)
    ELSE Return(f, RetFalse)

\* delete_upload_chunks
delete_upload_chunks(f, user_id, upload_id) ==
    IF Exists(f, ChunkDir(user_id, upload_id))
    THEN Bind(RmTree(f, ChunkDir(user_id, upload_id)), LAMBDA r :
             IF r.ok THEN Return(r.fs, RetTrue) ELSE Exception(r))
    ELSE Return(f, RetFalse)

\* cleanup_user_temp that removes the temp directory of all users
cleanup_user_temp_all(f, user_id) ==
    IF Exists(f, PathJoin(UPLOAD_FOLDER, AsPath(TempName)))
    THEN Bind(RmTree(f, PathJoin(UPLOAD_FOLDER, AsPath(TempName))), LAMBDA r :
             IF r.ok THEN Return(r.fs, None) ELSE Exception(r))
    ELSE Return(f, None)

\* cleanup_user_temp
cleanup_user_temp(f, user_id) ==
    IF Exists(f, TempDir(user_id))
    THEN Bind(RmTree(f, TempDir(user_id)), LAMBDA r :
             IF r.ok THEN Return(r.fs, None) ELSE Exception(r))
    ELSE Return(f, None)

\* the completeness check run from the last index down: it names the
\* largest absent index
RECURSIVE LastMissing(_, _, _, _, _)
LastMissing(f, user_id, upload_id, i, total_chunks) ==
    IF i >= total_chunks THEN -1
    ELSE IF ~Exists(f, ChunkPath(user_id, upload_id, total_chunks - 1)) THEN total_chunks - 1
    ELSE LastMissing(f, user_id, upload_id, i, total_chunks - 1)

\* the smallest index in 0..total_chunks-1 without a chunk file, or -1
RECURSIVE FirstMissing(_, _, _, _, _)
FirstMissing(f, user_id, upload_id, i, total_chunks) ==
    IF i >= total_chunks THEN -1
    ELSE IF ~Exists(f, ChunkPath(user_id, upload_id, i)) THEN i
    ELSE FirstMissing(f, user_id, upload_id, i + 1, total_chunks)

\* the chunks read from the last index down
RECURSIVE ReadChunksReversed(_, _, _, _, _)
ReadChunksReversed(f, user_id, upload_id, i, total_chunks) ==
    IF i >= total_chunks THEN <<>>
    ELSE ReadChunksReversed(f, user_id, upload_id, i + 1, total_chunks)
         \o f[Stat(f, ChunkPath(user_id, upload_id, i)).at].raw

\* the bytes of chunks i..total_chunks-1, in index order
RECURSIVE ReadChunks(_, _, _, _, _)
ReadChunks(f, user_id, upload_id, i, total_chunks) ==
    IF i >= total_chunks THEN <<>>
    ELSE f[Stat(f, ChunkPath(user_id, upload_id, i)).at].raw
         \o ReadChunks(f, user_id, upload_id, i + 1, total_chunks)

\* the size a merge would charge if it counted every chunk file the user
\* has in flight
ChunkSizesWithTemp(f, user_id, upload_id, i, total_chunks) ==
    get_temp_usage(f, user_id)

RECURSIVE ChunkSizes(_, _, _, _, _)
ChunkSizes(f, user_id, upload_id, i, total_chunks) ==
    IF i >= total_chunks THEN 0
    ELSE NodeSize(f[Stat(f, ChunkPath(user_id, upload_id, i)).at])
         + ChunkSizes(f, user_id, upload_id, i + 1, total_chunks)

\* shutil.rmtree(chunk_dir) followed by the return of result
RemoveChunks(f, user_id, upload_id, result) ==
    Bind(RmTree(f, ChunkDir(user_id, upload_id)), LAMBDA r :
        IF r.ok THEN [result EXCEPT !.fs = r.fs] ELSE Exception(r))

\* merge_chunks
merge_chunks(f, user_id, upload_id, name, total_chunks, used_bytes, quota_bytes, subpath, uuid) ==
    Bind(get_chunk_dir(f, user_id, upload_id), LAMBDA c :
        IF ~c.ok THEN Exception(c)
        ELSE
    Bind(FirstMissing(c.fs, user_id, upload_id, 0, total_chunks), LAMBDA missing :
        IF missing >= 0 THEN MissingChunk(c.fs, missing)
        ELSE IF ~has_space(used_bytes, quota_bytes,
                           ChunkSizes(c.fs, user_id, upload_id, 0, total_chunks))
        THEN RemoveChunks(c.fs, user_id, upload_id, Error(c.fs, "Quota exceeded."))
        ELSE
    Bind(get_user_upload_dir(c.fs, user_id), LAMBDA d1 :
        IF ~d1.ok THEN Exception(d1)
        ELSE IF ~SecurityCheck(TargetDir(user_id, subpath), UserDir(user_id))
        THEN Error(d1.fs, "Invalid path")
        ELSE
    Bind(EnsureDir(d1.fs, TargetDir(user_id, subpath)), LAMBDA d2 :
        IF ~d2.ok THEN Exception(d2)
        ELSE
    Bind(AutoRename(d2.fs, TargetDir(user_id, subpath), UploadName(name, uuid)), LAMBDA chosen :
    Bind(PathJoin(TargetDir(user_id, subpath), AsPath(chosen)), LAMBDA file_path :
    Bind(WriteFile(d2.fs, file_path,
                   RawFile(ReadChunks(d2.fs, user_id, upload_id, 0, total_chunks))),
         LAMBDA w :
        IF ~w.ok THEN Exception(w)
        ELSE
    Bind(CommitMetadata(w.fs, user_id, subpath, chosen,
                        calculate_file_hash_from_path(w.fs, file_path)),
         LAMBDA m :
        IF m.status # "ok" THEN m
        ELSE RemoveChunks(m.fs, user_id, upload_id, m)))))))))

\* delete_user_file
delete_user_file(f, user_id, name) ==
    Bind(get_user_upload_dir(f, user_id), LAMBDA d :
    Bind(safe_filename(name), LAMBDA filename :
    Bind(PathJoin(UserDir(user_id), AsPath(filename)), LAMBDA file_path :
        IF ~d.ok THEN Exception(d)
        ELSE IF ~Exists(d.fs, file_path) THEN Return(d.fs, RetFalse)
        ELSE
    Bind(Remove(d.fs, file_path), LAMBDA r :
        IF ~r.ok THEN Exception(r)
        ELSE
    Bind(load_metadata(r.fs, user_id), LAMBDA lm :
        IF ~lm.ok THEN Exception(lm)
        ELSE IF AsPath(filename) \notin DOMAIN lm.doc THEN Return(lm.fs, RetTrue)
        ELSE
    Bind(save_metadata(lm.fs, user_id,
                       [k \in DOMAIN lm.doc \ {AsPath(filename)} |-> lm.doc[k]]),
         LAMBDA sm :
        IF ~sm.ok THEN Exception(sm) ELSE Return(sm.fs, RetTrue)))))))

\* one entry of the listing get_user_files builds
ListEntry(g, doc, at, subpath, nm) ==
    Bind(g[Append(at, nm)], LAMBDA node :
    Bind(ReplaceBackslash(PathJoin(subpath, AsPath(nm))), LAMBDA rel_path :
    Bind(IF subpath # EmptyPath THEN rel_path ELSE AsPath(nm), LAMBDA meta_key :
        IF node.k = "dir"
        THEN [name |-> nm, type |-> "folder", size |-> 0,
              share_token |-> NoToken, path |-> rel_path]
        ELSE [name |-> nm, type |-> "file", size |-> NodeSize(node),
              share_token |-> IF meta_key \in DOMAIN doc THEN doc[meta_key].share_token
                              ELSE NoToken,
              path |-> rel_path])))

\* get_user_files: the entries listed for subpath (folders with size 0,
\* regular files other than metadata.json with their size and share token)
get_user_files(f, user_id, subpath) ==
    Bind(get_user_upload_dir(f, user_id), LAMBDA d :
        IF ~d.ok THEN [fs |-> d.fs, ok |-> FALSE, files |-> {}]
        ELSE IF ~SecurityCheck(TargetDir(user_id, subpath), UserDir(user_id))
        THEN [fs |-> d.fs, ok |-> TRUE, files |-> {}]
        ELSE
    Bind(load_metadata(d.fs, user_id), LAMBDA lm :
        IF ~lm.ok THEN [fs |-> lm.fs, ok |-> FALSE, files |-> {}]
        ELSE
    Bind(Stat(lm.fs, TargetDir(user_id, subpath)), LAMBDA st :
        IF st.e # "ok" \/ lm.fs[st.at].k # "dir"
        THEN [fs |-> lm.fs, ok |-> st.e # "ok", files |-> {}]
        ELSE [fs |-> lm.fs, ok |-> TRUE,
              files |-> {ListEntry(lm.fs, lm.doc, st.at, subpath, nm) :
                           nm \in {x \in ListDir(lm.fs, st.at) :
                                     lm.fs[Append(st.at, x)].k = "dir" \/ x # MetadataName}}])))

\* verify_file_integrity without the comparison of digests
verify_file_integrity_present(f, user_id, filename) ==
    Bind(load_metadata(f, user_id), LAMBDA lm :
        IF ~lm.ok THEN Exception(lm)
        ELSE IF filename \notin DOMAIN lm.doc THEN Return(lm.fs, RetTrue)
        ELSE IF lm.doc[filename].hash = <<>> THEN Return(lm.fs, RetTrue)
        ELSE IF ~Exists(lm.fs, PathJoin(UserDir(user_id), filename)) THEN Return(lm.fs, RetFalse)
        ELSE Return(lm.fs, RetTrue))

\* verify_file_integrity
verify_file_integrity(f, user_id, filename) ==
    Bind(load_metadata(f, user_id), LAMBDA lm :
        IF ~lm.ok THEN Exception(lm)
        ELSE IF filename \notin DOMAIN lm.doc THEN Return(lm.fs, RetTrue)
        ELSE IF lm.doc[filename].hash = <<>> THEN Return(lm.fs, RetTrue)
        ELSE
    Bind(get_user_upload_dir(lm.fs, user_id), LAMBDA d :
    Bind(PathJoin(UserDir(user_id), filename), LAMBDA file_path :
        IF ~d.ok THEN Exception(d)
        ELSE IF ~Exists(d.fs, file_path) THEN Return(d.fs, RetFalse)
        ELSE IF ~IsFile(d.fs, file_path) THEN Exception(Raise(d.fs, "IsADirectoryError"))
        ELSE IF calculate_file_hash_from_path(d.fs, file_path) = lm.doc[filename].hash
        THEN Return(d.fs, RetTrue)
        ELSE Return(d.fs, RetFalse))))

\* create_user_folder
create_user_folder(f, user_id, subpath, folder_name) ==
    Bind(get_user_upload_dir(f, user_id), LAMBDA d :
    Bind(PathJoin(TargetDir(user_id, subpath), AsPath(safe_filename(folder_name))),
         LAMBDA new_folder_path :
        IF ~d.ok THEN Exception(d)
        ELSE IF ~SecurityCheck(TargetDir(user_id, subpath), UserDir(user_id))
        THEN Error(d.fs, "Invalid path")
        ELSE IF Exists(d.fs, new_folder_path) THEN Error(d.fs, "Folder already exists")
        ELSE
    Bind(Makedirs(d.fs, new_folder_path), LAMBDA m :
        IF m.ok THEN Return(m.fs, RetTrue) ELSE Error(m.fs, m.exc))))

\* the metadata keys delete_user_folder removes: those starting with
\* folder_path and a "/"
KeysToDelete(doc, folder_path) ==
    Bind(ReplaceBackslash(folder_path), LAMBDA slashed :
    Bind(IF EndsWithSlash(slashed) THEN slashed ELSE Append(slashed, EmptyName), LAMBDA prefix :
        {key \in DOMAIN doc : StartsWith(key, prefix)}))

\* delete_user_folder
delete_user_folder(f, user_id, folder_path) ==
    Bind(get_user_upload_dir(f, user_id), LAMBDA d :
    Bind(TargetDir(user_id, folder_path), LAMBDA target_dir :
        IF ~d.ok THEN Exception(d)
        ELSE IF ~SecurityCheck(target_dir, UserDir(user_id)) THEN Error(d.fs, "Invalid path")
        ELSE IF ~Exists(d.fs, target_dir) THEN Error(d.fs, "Folder not found")
        ELSE IF ~IsDir(d.fs, target_dir) THEN Error(d.fs, "Not a folder")
        ELSE
    Bind(RmTree(d.fs, target_dir), LAMBDA r :
        IF ~r.ok THEN Error(r.fs, r.exc)
        ELSE
    Bind(load_metadata(r.fs, user_id), LAMBDA lm :
        IF ~lm.ok THEN Error(lm.fs, lm.exc)
        ELSE
    Bind(KeysToDelete(lm.doc, folder_path), LAMBDA keys_to_delete :
        IF keys_to_delete = {} THEN Return(lm.fs, RetTrue)
        ELSE
    Bind(save_metadata(lm.fs, user_id,
                       [key \in DOMAIN lm.doc \ keys_to_delete |-> lm.doc[key]]),
         LAMBDA sm :
        IF sm.ok THEN Return(sm.fs, RetTrue) ELSE Error(sm.fs, sm.exc)))))))

\* generate_share_token with one token for every path
generate_share_token_fixed(f, user_id, filename, uuid) ==
    Bind(load_metadata(f, user_id), LAMBDA lm :
        IF ~lm.ok THEN Exception(lm)
        ELSE IF filename \notin DOMAIN lm.doc THEN Return(lm.fs, None)
        ELSE
    Bind(save_metadata(lm.fs, user_id,
                       [lm.doc EXCEPT ![filename] = Entry(lm.doc[filename].hash, <<"t", "1">>)]),
         LAMBDA sm :
        IF ~sm.ok THEN Exception(sm) ELSE Return(sm.fs, <<"t", "1">>)))

\* generate_share_token that makes an entry for a path that has none
generate_share_token_created(f, user_id, filename, uuid) ==
    Bind(load_metadata(f, user_id), LAMBDA lm :
        IF ~lm.ok THEN Exception(lm)
        ELSE
    Bind(save_metadata(lm.fs, user_id,
                       (filename :> Entry(IF filename \in DOMAIN lm.doc
                                          THEN lm.doc[filename].hash ELSE <<>>, uuid)) @@ lm.doc),
         LAMBDA sm :
        IF ~sm.ok THEN Exception(sm) ELSE Return(sm.fs, uuid)))

\* generate_share_token; uuid is the token uuid4 gives
generate_share_token(f, user_id, filename, uuid) ==
    Bind(load_metadata(f, user_id), LAMBDA lm :
        IF ~lm.ok THEN Exception(lm)
        ELSE IF filename \notin DOMAIN lm.doc THEN Return(lm.fs, None)
        ELSE
    Bind(save_metadata(lm.fs, user_id,
                       [lm.doc EXCEPT ![filename] = Entry(lm.doc[filename].hash, uuid)]),
         LAMBDA sm :
        IF ~sm.ok THEN Exception(sm) ELSE Return(sm.fs, uuid)))

\* revoke_share_token with the reset of the token left out
revoke_share_token_kept(f, user_id, filename) ==
    Bind(load_metadata(f, user_id), LAMBDA lm :
        IF ~lm.ok THEN Exception(lm)
        ELSE IF filename \notin DOMAIN lm.doc THEN Return(lm.fs, RetFalse)
        ELSE Return(lm.fs, RetTrue))

\* revoke_share_token
revoke_share_token(f, user_id, filename) ==
    Bind(load_metadata(f, user_id), LAMBDA lm :
        IF ~lm.ok THEN Exception(lm)
        ELSE IF filename \notin DOMAIN lm.doc THEN Return(lm.fs, RetFalse)
        ELSE
    Bind(save_metadata(lm.fs, user_id,
                       [lm.doc EXCEPT ![filename] = Entry(lm.doc[filename].hash, NoToken)]),
         LAMBDA sm :
        IF ~sm.ok THEN Exception(sm) ELSE Return(sm.fs, RetTrue)))

\* the directories get_file_by_token scans: the entries of the upload
\* folder other than temp
ScannedDirs(f) ==
    IF ~Exists(f, UPLOAD_FOLDER) THEN {}
    ELSE ListDir(f, Stat(f, UPLOAD_FOLDER).at) \ {TempName}

\* the store after load_metadata has run for every directory of dirs
RECURSIVE LoadAll(_, _)
LoadAll(f, dirs) ==
    IF dirs = {} THEN f
    ELSE Bind(CHOOSE d \in dirs : TRUE, LAMBDA d :
             LoadAll(load_metadata(f, d).fs, dirs \ {d}))

\* get_file_by_token: found holds every (user_id, filename) whose entry
\* carries the token; the scan returns the first one in the order of
\* os.listdir, or (None, None) when there is none, and fs is then the
\* store after every directory was loaded
get_file_by_token(f, token) ==
    [fs |-> LoadAll(f, ScannedDirs(f)),
     found |-> {p \in UNION {{<<d, key>> : key \in DOMAIN load_metadata(f, d).doc} :
                               d \in ScannedDirs(f)} :
                  load_metadata(f, p[1]).doc[p[2]].share_token = token}]

\* the stores a scan that returns p can leave: os.listdir gives no order,
\* so any of the directories without a match were loaded before the
\* directory of p, and none after it
ScanStores(f, token, p) ==
    {LoadAll(f, before \cup {p[1]}) :
        before \in SUBSET {d \in ScannedDirs(f) :
                              \A q \in get_file_by_token(f, token).found : q[1] # d}}

(***************************************************************************)
(* Users (src/app/models.py) and the requests of src/app/routes_main.py.   *)
(* A request of the sequential specification runs from the route's first   *)
(* line to its response; last is the response of the latest request with   *)
(* the inputs it was given.                                                *)
(***************************************************************************)
Uid1 == <<"1">>

Uid10 == <<"1", "0">>

Users == {Uid1, Uid10}

\* the user of the quota test, created with quota_bytes=10
Uid2 == <<"2">>

Accounts == Users \cup {Uid2}

\* User.quota_bytes of users 1 and 10
QuotaBytes == 3

TestQuotaBytes == 10

quota_bytes(user_id) == IF user_id = Uid2 THEN TestQuotaBytes ELSE QuotaBytes

\* the most regular files outside the temp area the model lets exist
MaxFiles == 4

StoredFiles(f) ==
    {x \in DOMAIN f : f[x].k = "file" /\ ~IsPrefixSeq(AbsComps(PathJoin(UPLOAD_FOLDER, AsPath(TempName))), x)}

Response(op, user_id, name, sub, data, upload_id, idx, total, r) ==
    [op |-> op, user |-> user_id, name |-> name, sub |-> sub, data |-> data,
     upload_id |-> upload_id, idx |-> idx, total |-> total,
     status |-> r.status, ret |-> r.ret, err |-> r.err, n |-> r.n]

NoResponse ==
    [op |-> "none", user |-> <<>>, name |-> <<>>, sub |-> EmptyPath, data |-> <<>>,
     upload_id |-> <<>>, idx |-> -1, total |-> -1,
     status |-> "ok", ret |-> None, err |-> "", n |-> -1]

\* is_safe_upload_id: a non-empty token of letters, digits, "-" and "_"
SafeTokenChars == {"a", "b", "x", "y", "0", "1", "2", "-", "_"}

is_safe_upload_id(upload_id) ==
    upload_id # <<>> /\ \A i \in 1..Len(upload_id) : upload_id[i] \in SafeTokenChars

\* the request is answered: the file system it leaves, the usage it
\* committed and its response
Respond(f, u, response) ==
    /\ fs' = f
    /\ used' = u
    /\ last' = response
    /\ UNCHANGED <<req, users_db>>

\* POST /upload with one file
upload_file(user_id, name, data, subpath, uuid) ==
    \E r \in {save_file(fs, user_id, used[user_id], quota_bytes(user_id), name, data, subpath, uuid)} :
        Respond(r.fs,
                IF r.status = "ok" THEN [used EXCEPT ![user_id] = @ + Len(data)] ELSE used,
                Response("upload_file", user_id, name, subpath, data, <<>>, -1, -1, r))

\* POST /upload_chunk
upload_chunk(user_id, upload_id, chunk_index, data) ==
    \E r \in {IF ~is_safe_upload_id(upload_id) THEN Error(fs, "Invalid upload_id")
              ELSE save_chunk(fs, user_id, upload_id, chunk_index, data, used[user_id], quota_bytes(user_id))} :
        Respond(r.fs, used,
                Response("upload_chunk", user_id, <<>>, EmptyPath, data, upload_id, chunk_index, -1, r))

\* no size is found for the merged file
MergedSizeZero(r, user_id, current_path) ==
    [fs |-> r.fs, ok |-> TRUE, size |-> 0]

\* the size upload_merge adds to used_bytes: os.path.getsize of the path it
\* builds from current_path and the name merge_chunks returned
MergedSize(r, user_id, current_path) ==
    Bind(get_user_upload_dir(r.fs, user_id), LAMBDA d :
    Bind(Stat(d.fs, PathJoin(TargetDir(user_id, current_path), AsPath(r.ret))), LAMBDA st :
        IF ~d.ok THEN [fs |-> d.fs, ok |-> FALSE, size |-> 0]
        ELSE IF st.e # "ok" THEN [fs |-> d.fs, ok |-> FALSE, size |-> 0]
        ELSE [fs |-> d.fs, ok |-> TRUE,
              size |-> IF d.fs[st.at].k = "file" THEN NodeSize(d.fs[st.at]) ELSE 0]))

\* POST /upload_merge
upload_merge(user_id, upload_id, name, total_chunks, current_path, uuid) ==
    \E r \in {IF ~is_safe_upload_id(upload_id) THEN Error(fs, "Invalid upload_id")
              ELSE merge_chunks(fs, user_id, upload_id, name, total_chunks, used[user_id], quota_bytes(user_id), current_path, uuid)} :
        IF r.status # "ok"
        THEN Respond(r.fs, used,
                     Response("upload_merge", user_id, name, current_path, <<>>, upload_id, -1, total_chunks, r))
        ELSE \E m \in {MergedSize(r, user_id, current_path)} :
                 Respond(m.fs,
                         IF m.ok THEN [used EXCEPT ![user_id] = @ + m.size] ELSE used,
                         Response("upload_merge", user_id, name, current_path, <<>>, upload_id, -1, total_chunks,
                                  IF m.ok THEN r ELSE Exception(Raise(m.fs, "FileNotFoundError"))))

\* the cancel route without its check of the upload id
upload_cancel_unchecked(user_id, upload_id) ==
    \E r \in {delete_upload_chunks(fs, user_id, upload_id)} :
        Respond(r.fs, used,
                Response("upload_cancel", user_id, <<>>, EmptyPath, <<>>, upload_id, -1, -1, r))

\* POST /upload/cancel
upload_cancel(user_id, upload_id) ==
    \E r \in {IF ~is_safe_upload_id(upload_id) THEN Error(fs, "Invalid upload_id")
              ELSE delete_upload_chunks(fs, user_id, upload_id)} :
        Respond(r.fs, used,
                Response("upload_cancel", user_id, <<>>, EmptyPath, <<>>, upload_id, -1, -1, r))

\* the path the dashboard lists: a path that is absolute or holds ".." is
\* replaced by the root
DashboardPath(path) ==
    IF IsAbs(path) \/ NameStartsWith(path[1], <<"\\">>)
       \/ \E k \in 1..Len(path) : \E i \in 1..(Len(path[k]) - 1) :
              path[k][i] = "." /\ path[k][i + 1] = "."
    THEN EmptyPath ELSE path

\* GET /: the orphan sweep, then the listing of subpath
dashboard(user_id, path) ==
    \E c \in {cleanup_user_temp(fs, user_id)} :
        IF c.status # "ok"
        THEN Respond(c.fs, used,
                     Response("dashboard", user_id, <<>>, path, <<>>, <<>>, -1, -1, c))
        ELSE \E l \in {get_user_files(c.fs, user_id, DashboardPath(path))} :
                 Respond(l.fs, used,
                         Response("dashboard", user_id, <<>>, path, <<>>, <<>>, -1, -1,
                                  IF l.ok THEN Return(l.fs, None)
                                  ELSE Exception(Raise(l.fs, "OSError"))))

RECURSIVE SumListed(_)
SumListed(files) ==
    IF files = {} THEN 0
    ELSE LET x == CHOOSE y \in files : TRUE
         IN  x.size + SumListed(files \ {x})

\* POST /delete/<filename>
delete_file(user_id, filename) ==
    \E r \in {delete_user_file(fs, user_id, filename)} :
        IF r.status = "ok" /\ r.ret = RetTrue
        THEN \E l \in {get_user_files(r.fs, user_id, EmptyPath)} :
                 Respond(l.fs,
                         IF l.ok THEN [used EXCEPT ![user_id] = SumListed(l.files)] ELSE used,
                         Response("delete_file", user_id, filename, EmptyPath, <<>>, <<>>, -1, -1,
                                  IF l.ok THEN r ELSE Exception(Raise(l.fs, "OSError"))))
        ELSE Respond(r.fs, used,
                     Response("delete_file", user_id, filename, EmptyPath, <<>>, <<>>, -1, -1, r))

\* the usage delete_folder recomputes: every regular file os.walk finds
\* below the user's root
WalkedSize(f, user_id) ==
    Bind(get_user_upload_dir(f, user_id), LAMBDA d :
        IF ~d.ok THEN [fs |-> d.fs, ok |-> FALSE, exc |-> d.exc, size |-> 0]
        ELSE [fs |-> d.fs, ok |-> TRUE, exc |-> "none",
              size |-> SumSizes(d.fs, WalkFiles(d.fs, Stat(d.fs, UserDir(user_id)).at))])

\* POST /delete_folder: the value delete_user_folder returns is a pair,
\* which is true whatever it holds, so the usage is recomputed after every
\* call that returns
delete_folder(user_id, folder_path) ==
    \E r \in {delete_user_folder(fs, user_id, folder_path)} :
        IF r.status = "exc"
        THEN Respond(r.fs, used,
                     Response("delete_folder", user_id, <<>>, folder_path, <<>>, <<>>, -1, -1, r))
        ELSE \E w \in {WalkedSize(r.fs, user_id)} :
                 Respond(w.fs,
                         IF w.ok THEN [used EXCEPT ![user_id] = w.size] ELSE used,
                         Response("delete_folder", user_id, <<>>, folder_path, <<>>, <<>>, -1, -1,
                                  IF w.ok THEN r ELSE Exception(w)))

\* POST /create_folder
create_folder(user_id, current_path, folder_name) ==
    \E r \in {create_user_folder(fs, user_id, current_path, folder_name)} :
        Respond(r.fs, used,
                Response("create_folder", user_id, folder_name, current_path, <<>>, <<>>, -1, -1, r))

\* posixpath.normpath of a relative path: the components that remain
RECURSIVE NormRel(_, _)
NormRel(comps, new) ==
    IF comps = <<>> THEN new
    ELSE IF Head(comps) = <<>> \/ Head(comps) = <<".">> THEN NormRel(Tail(comps), new)
    ELSE IF Head(comps) # <<".", ".">> THEN NormRel(Tail(comps), Append(new, Head(comps)))
    ELSE IF new # <<>> /\ new[Len(new)] # <<".", ".">>
    THEN NormRel(Tail(comps), SubSeq(new, 1, Len(new) - 1))
    ELSE NormRel(Tail(comps), Append(new, Head(comps)))

\* whether send_from_directory finds a regular file for filename: the
\* normalised path must stay below the directory
Servable(f, user_id, filename) ==
    /\ ~IsAbs(filename)
    /\ NormRel(filename, <<>>) # <<>>
    /\ NormRel(filename, <<>>)[1] # <<".", ".">>
    /\ IsFile(f, PathJoin(UserDir(user_id), NormRel(filename, <<>>)))

\* GET /download/<path:filename>: the integrity check, then
\* send_from_directory, which answers NotFound for a path that leaves the
\* directory or names no regular file
download_file(user_id, filename) ==
    \E v \in {verify_file_integrity(fs, user_id, filename)} :
        IF v.status = "exc" \/ v.ret = RetFalse
        THEN Respond(v.fs, used,
                     Response("download_file", user_id, <<>>, filename, <<>>, <<>>, -1, -1,
                              IF v.status = "exc" THEN v
                              ELSE Error(v.fs, "File integrity check failed!")))
        ELSE \E d \in {get_user_upload_dir(v.fs, user_id)} :
                 Respond(d.fs, used,
                         Response("download_file", user_id, <<>>, filename, <<>>, <<>>, -1, -1,
                                  IF ~d.ok THEN Exception(d)
                                  ELSE IF ~Servable(d.fs, user_id, filename)
                                  THEN Error(d.fs, "NotFound")
                                  ELSE Return(d.fs, RetTrue)))

\* the environment: the bytes of a stored file change on disk
Tamper(user_id, path, data) ==
    \E st \in {Stat(fs, PathJoin(UserDir(user_id), path))} :
        /\ st.e = "ok"
        /\ fs[st.at].k = "file"
        /\ ~fs[st.at].json
        /\ fs[st.at].raw # data
        /\ Respond([fs EXCEPT ![st.at] = RawFile(data)], used,
                   Response("tamper", user_id, <<>>, path, data, <<>>, -1, -1, Return(fs, None)))

\* POST /share/<filename>
share_file(user_id, filename, uuid) ==
    \E r \in {generate_share_token(fs, user_id, filename, uuid)} :
        Respond(r.fs, used,
                Response("share_file", user_id, <<>>, filename, <<>>, <<>>, -1, -1,
                         IF r.status = "ok" /\ r.ret = None THEN Error(r.fs, "File not found")
                         ELSE r))

\* POST /unshare/<filename>
unshare_file(user_id, filename) ==
    \E r \in {revoke_share_token(fs, user_id, filename)} :
        Respond(r.fs, used,
                Response("unshare_file", user_id, <<>>, filename, <<>>, <<>>, -1, -1,
                         IF r.status = "ok" /\ r.ret = RetFalse THEN Error(r.fs, "File not found")
                         ELSE r))

\* GET /s/<token>: the file the token resolves to is sent, with no
\* integrity check
public_download(token) ==
    \E g \in {get_file_by_token(fs, token)} :
        IF g.found = {}
        THEN Respond(g.fs, used,
                     Response("public_download", <<>>, token, EmptyPath, <<>>, <<>>, -1, -1,
                              Error(g.fs, "NotFound")))
        ELSE \E p \in g.found : \E f \in ScanStores(fs, token, p) :
                 Respond(f, used,
                         Response("public_download", p[1], token, p[2], <<>>, <<>>, -1, -1,
                                  IF Servable(f, p[1], p[2]) THEN Return(f, RetTrue)
                                  ELSE Error(f, "NotFound")))

(***************************************************************************)
(* Inputs of the specifications.                                           *)
(***************************************************************************)
NameA == <<"a", ".", "t">>

NameA1 == <<"a", "_", "1", ".", "t">>

FolderD == <<"d">>

DotDot == <<".", ".">>

DataSet == {<<1>>, <<2, 3>>}

Uuids == {<<"u", "u", "i", "d">>}

\* the account run.py creates with username 'admin'
RootAdmin == Uid1

\* the rows of the User table at the start: the root admin and two users
InitialUsers == [u \in Accounts |-> [is_admin |-> u = RootAdmin]]

Init ==
    /\ fs = (<<>> :> DirNode) @@ (AbsComps(UPLOAD_FOLDER) :> DirNode)
    /\ used = [u \in Accounts |-> 0]
    /\ last = NoResponse
    /\ req = <<>>
    /\ users_db = InitialUsers

CanStore == Cardinality(StoredFiles(fs)) < MaxFiles

(***************************************************************************)
(* Spec: one signed-in user stores files in the root and in a folder and   *)
(* creates folders and deletes files and folders, one request at a time.   *)
(***************************************************************************)
Names == {NameA}

Subpaths == {EmptyPath, <<FolderD>>}

UploadFile ==
    /\ CanStore
    /\ \E name \in Names, data \in DataSet, sub \in Subpaths, uuid \in Uuids :
           upload_file(Uid1, name, data, sub, uuid)

DeleteFile ==
    \E name \in Names \cup {NameA1} : delete_file(Uid1, name)

DeleteFolder ==
    \E sub \in Subpaths \ {EmptyPath} : delete_folder(Uid1, sub)

CreateFolder ==
    \E sub \in Subpaths, name \in {FolderD} : create_folder(Uid1, sub, name)

Next ==
    \/ UploadFile
    \/ DeleteFile
    \/ DeleteFolder
    \/ CreateFolder

Spec == Init /\ [][Next]_vars

(***************************************************************************)
(* SpecIntegrity: files are stored, corrupted on disk and downloaded.      *)
(***************************************************************************)
IntegrityNames == {NameA, MetadataName}

\* a folder path written with a backslash: one folder named d\e where "/"
\* separates, while the metadata key replaces the backslash by "/"
FolderBackslash == <<"d", "\\", "e">>

IntegritySubpaths == {EmptyPath, <<FolderD>>, <<FolderBackslash>>}

StoredPaths ==
    {<<NameA>>, <<NameA1>>, <<MetadataName>>, <<FolderD, NameA>>, <<FolderD, <<"e">>, NameA>>}

CorruptData == {<<0>>}

IntegrityUploadFile ==
    /\ CanStore
    /\ \E name \in IntegrityNames, data \in DataSet, sub \in IntegritySubpaths, uuid \in Uuids :
           upload_file(Uid1, name, data, sub, uuid)

DownloadFile ==
    \E path \in StoredPaths : download_file(Uid1, path)

TamperFile ==
    \E path \in StoredPaths, data \in CorruptData : Tamper(Uid1, path, data)

NextIntegrity ==
    \/ IntegrityUploadFile
    \/ DownloadFile
    \/ TamperFile

SpecIntegrity == Init /\ [][NextIntegrity]_vars

(***************************************************************************)
(* SpecChunks: chunked uploads next to plain ones.  The chunks of one      *)
(* upload are sent in any order; a merge may name any number of chunks and *)
(* a folder the security check rejects.                                    *)
(***************************************************************************)
UploadIds == {<<"x">>}

MaxChunkIndex == 1

MaxTotalChunks == 2

ChunkNames == {NameA}

ChunkSubpaths == {EmptyPath, <<DotDot>>}

ChunkedUploadFile ==
    /\ CanStore
    /\ \E name \in ChunkNames, data \in DataSet, sub \in ChunkSubpaths, uuid \in Uuids :
           upload_file(Uid1, name, data, sub, uuid)

UploadChunk ==
    \E id \in UploadIds, i \in 0..MaxChunkIndex, data \in DataSet :
        upload_chunk(Uid1, id, i, data)

UploadMerge ==
    /\ CanStore
    /\ \E id \in UploadIds, name \in ChunkNames, total \in 0..MaxTotalChunks,
          sub \in ChunkSubpaths, uuid \in Uuids :
           upload_merge(Uid1, id, name, total, sub, uuid)

UploadCancel ==
    \E id \in UploadIds : upload_cancel(Uid1, id)

Dashboard == dashboard(Uid1, EmptyPath)

NextChunks ==
    \/ ChunkedUploadFile
    \/ UploadChunk
    \/ UploadMerge
    \/ UploadCancel
    \/ Dashboard

SpecChunks == Init /\ [][NextChunks]_vars

(***************************************************************************)
(* SpecPaths: users 1 and 10 pass client-chosen folder paths to the        *)
(* requests that take one.  A merge names no chunks, so it goes straight   *)
(* to the path check.                                                      *)
(***************************************************************************)
NameEtc == <<"e", "t", "c">>

NamePasswd == <<"p", "a", "s", "s", "w", "d">>

NameSub == <<"s", "u", "b">>

NameFileTxt == <<"f", "i", "l", "e", ".", "t", "x", "t">>

\* "../../etc/passwd"
PathUpEtcPasswd == <<DotDot, DotDot, NameEtc, NamePasswd>>

\* "/etc/passwd"
PathAbsEtcPasswd == <<EmptyName, NameEtc, NamePasswd>>

\* "sub/../file.txt"
PathSubUpFile == <<NameSub, DotDot, NameFileTxt>>

\* "../10"
PathUp10 == <<DotDot, Uid10>>

ClientPaths == {EmptyPath, PathUp10, PathUpEtcPasswd, PathAbsEtcPasswd, PathSubUpFile}

PathData == {<<1>>}

PathUploadFile ==
    /\ CanStore
    /\ \E u \in Users, data \in PathData, sub \in ClientPaths, uuid \in Uuids :
           upload_file(u, NameA, data, sub, uuid)

PathUploadMerge ==
    /\ CanStore
    /\ \E u \in Users, id \in UploadIds, sub \in ClientPaths \ {EmptyPath}, uuid \in Uuids :
           upload_merge(u, id, NameA, 0, sub, uuid)

NextPaths ==
    \/ PathUploadFile
    \/ PathUploadMerge

SpecPaths == Init /\ [][NextPaths]_vars

(***************************************************************************)
(* SpecConc: upload requests of one user served concurrently.  Every       *)
(* request works on the User object its own session loaded when the        *)
(* request began; between its steps the steps of other requests may run.   *)
(* No route takes a lock.                                                  *)
(***************************************************************************)
MaxRequests == 3

\* load_user: the request's session reads the user's row
load_user(user_id, name, data) ==
    /\ Len(req) < MaxRequests
    /\ UNCHANGED users_db
    /\ req' = Append(req, [pc |-> "loaded", user |-> user_id, used_bytes |-> used[user_id],
                           name |-> name, data |-> data])
    /\ UNCHANGED <<fs, used, last>>

\* upload_file up to the return of save_file, which checks the quota
\* against the used_bytes the session holds
upload_file_save(i, uuid) ==
    /\ req[i].pc = "loaded"
    /\ \E r \in {save_file(fs, req[i].user, req[i].used_bytes, quota_bytes(req[i].user),
                           req[i].name, req[i].data, EmptyPath, uuid)} :
           /\ fs' = r.fs
           /\ last' = Response("upload_file", req[i].user, req[i].name, EmptyPath, req[i].data,
                               <<>>, -1, -1, r)
           /\ UNCHANGED users_db
           /\ req' = [req EXCEPT ![i].pc = IF r.status = "ok" THEN "saved" ELSE "done"]
           /\ UNCHANGED used

\* current_user.used_bytes += size; db.session.commit(): the session writes
\* the sum of the value it holds and the size
upload_file_commit(i) ==
    /\ req[i].pc = "saved"
    /\ used' = [used EXCEPT ![req[i].user] = req[i].used_bytes + Len(req[i].data)]
    /\ UNCHANGED users_db
    /\ req' = [req EXCEPT ![i].pc = "committed"]
    /\ UNCHANGED <<fs, last>>

LoadUser ==
    \E name \in ChunkNames, data \in DataSet : load_user(Uid1, name, data)

UploadFileSave ==
    \E i \in 1..Len(req), uuid \in Uuids : upload_file_save(i, uuid)

UploadFileCommit ==
    \E i \in 1..Len(req) : upload_file_commit(i)

NextConc ==
    \/ LoadUser
    \/ UploadFileSave
    \/ UploadFileCommit

SpecConc == Init /\ [][NextConc]_vars

\* save_file up to file.save: the checks, the choice of the name and the
\* write of the file
SaveFileWrite(f, user_id, used_bytes, quota, name, data, subpath, uuid) ==
    IF name = <<>> \/ ~allowed_file(name) THEN Error(f, "Invalid file type.")
    ELSE IF ~has_space(used_bytes, quota, Len(data) + get_temp_usage(f, user_id))
    THEN Error(f, "Quota exceeded.")
    ELSE
    Bind(get_user_upload_dir(f, user_id), LAMBDA d1 :
        IF ~d1.ok THEN Exception(d1)
        ELSE IF ~SecurityCheck(TargetDir(user_id, subpath), UserDir(user_id))
        THEN Error(d1.fs, "Invalid path")
        ELSE
    Bind(EnsureDir(d1.fs, TargetDir(user_id, subpath)), LAMBDA d2 :
        IF ~d2.ok THEN Exception(d2)
        ELSE
    Bind(AutoRename(d2.fs, TargetDir(user_id, subpath), UploadName(name, uuid)), LAMBDA chosen :
    Bind(WriteFile(d2.fs, PathJoin(TargetDir(user_id, subpath), AsPath(chosen)), RawFile(data)),
         LAMBDA w :
        IF ~w.ok THEN Exception(w) ELSE Return(w.fs, chosen)))))

(***************************************************************************)
(* SpecMerge: merges served step by step.  merge_chunks holds no lock and  *)
(* has no try/finally: between the completeness check, the copy of each    *)
(* chunk and the commit, a cancel of the same upload may run, and a write  *)
(* may fail.  req holds the merges that have opened their destination.     *)
(***************************************************************************)
MaxMerges == 2

\* merge_chunks up to open(file_path, "wb"): the checks, the choice of the
\* name and the creation of the empty destination
MergeOpen(f, user_id, upload_id, name, total_chunks, used_bytes, quota, subpath, uuid) ==
    Bind(get_chunk_dir(f, user_id, upload_id), LAMBDA c :
        IF ~c.ok THEN Exception(c)
        ELSE
    Bind(FirstMissing(c.fs, user_id, upload_id, 0, total_chunks), LAMBDA missing :
        IF missing >= 0 THEN MissingChunk(c.fs, missing)
        ELSE IF ~has_space(used_bytes, quota,
                           ChunkSizes(c.fs, user_id, upload_id, 0, total_chunks))
        THEN RemoveChunks(c.fs, user_id, upload_id, Error(c.fs, "Quota exceeded."))
        ELSE
    Bind(get_user_upload_dir(c.fs, user_id), LAMBDA d1 :
        IF ~d1.ok THEN Exception(d1)
        ELSE IF ~SecurityCheck(TargetDir(user_id, subpath), UserDir(user_id))
        THEN Error(d1.fs, "Invalid path")
        ELSE
    Bind(EnsureDir(d1.fs, TargetDir(user_id, subpath)), LAMBDA d2 :
        IF ~d2.ok THEN Exception(d2)
        ELSE
    Bind(AutoRename(d2.fs, TargetDir(user_id, subpath), UploadName(name, uuid)), LAMBDA chosen :
    Bind(WriteFile(d2.fs, PathJoin(TargetDir(user_id, subpath), AsPath(chosen)), RawFile(<<>>)),
         LAMBDA w :
        IF ~w.ok THEN Exception(w) ELSE Return(w.fs, chosen)))))))

\* a merge in progress: its inputs, the used_bytes its session loaded, the
\* name it chose, the next chunk to copy, and the content the chunks made
\* up when the completeness check passed
Merge(user_id, upload_id, total_chunks, subpath, r) ==
    [pc |-> IF r.status = "ok" THEN "copy" ELSE "done",
     user |-> user_id, upload_id |-> upload_id, total |-> total_chunks, sub |-> subpath,
     used_bytes |-> used[user_id], name |-> r.ret, i |-> 0,
     content |-> IF r.status = "ok" THEN ReadChunks(fs, user_id, upload_id, 0, total_chunks)
                 ELSE <<>>]

\* the destination path of merge m
MergePath(m) == PathJoin(TargetDir(m.user, m.sub), AsPath(m.name))

\* POST /upload_merge, first step
merge_open(user_id, upload_id, name, total_chunks, current_path, uuid) ==
    /\ Len(req) < MaxMerges
    /\ \E r \in {MergeOpen(fs, user_id, upload_id, name, total_chunks, used[user_id],
                           quota_bytes(user_id), current_path, uuid)} :
           /\ fs' = r.fs
           /\ UNCHANGED users_db
           /\ req' = Append(req, Merge(user_id, upload_id, total_chunks, current_path, r))
           /\ last' = IF r.status = "ok" THEN last
                      ELSE Response("upload_merge", user_id, name, current_path, <<>>, upload_id,
                                    -1, total_chunks, r)
           /\ UNCHANGED used

\* one turn of the merge loop: open chunk i, read it and write it to the
\* destination; a chunk that is gone, or a write that fails (io_ok false),
\* raises, and the route answers the exception
merge_copy(k, io_ok) ==
    /\ req[k].pc = "copy"
    /\ req[k].i < req[k].total
    /\ \E c \in {Stat(fs, ChunkPath(req[k].user, req[k].upload_id, req[k].i))},
          d \in {Stat(fs, MergePath(req[k]))} :
           IF c.e # "ok" \/ ~io_ok
           THEN /\ UNCHANGED users_db
                /\ req' = [req EXCEPT ![k].pc = "done"]
                /\ last' = Response("upload_merge", req[k].user, req[k].name, req[k].sub, <<>>,
                                    req[k].upload_id, -1, req[k].total,
                                    Exception(Raise(fs, IF c.e # "ok" THEN "FileNotFoundError"
                                                        ELSE "OSError")))
                /\ UNCHANGED <<fs, used>>
           ELSE /\ fs' = [fs EXCEPT ![d.at] = RawFile(@.raw \o fs[c.at].raw)]
                /\ UNCHANGED users_db
                /\ req' = [req EXCEPT ![k].i = @ + 1]
                /\ UNCHANGED <<used, last>>

\* the merge after its loop: digest, metadata, removal of the chunks, then
\* the route's update of used_bytes from the value its session loaded
merge_commit(k) ==
    /\ req[k].pc = "copy"
    /\ req[k].i = req[k].total
    /\ \E m \in {CommitMetadata(fs, req[k].user, req[k].sub, req[k].name,
                                calculate_file_hash_from_path(fs, MergePath(req[k])))} :
       \E r \in {IF m.status # "ok" THEN m
                 ELSE RemoveChunks(m.fs, req[k].user, req[k].upload_id, m)} :
       \E g \in {IF r.status # "ok" THEN [fs |-> r.fs, ok |-> FALSE, size |-> 0]
                 ELSE MergedSize(r, req[k].user, req[k].sub)} :
           /\ fs' = g.fs
           /\ used' = IF g.ok THEN [used EXCEPT ![req[k].user] = req[k].used_bytes + g.size]
                      ELSE used
           /\ UNCHANGED users_db
           /\ req' = [req EXCEPT ![k].pc = "done"]
           /\ last' = Response("upload_merge", req[k].user, req[k].name, req[k].sub, <<>>,
                               req[k].upload_id, -1, req[k].total,
                               IF r.status # "ok" THEN r
                               ELSE IF g.ok THEN r
                               ELSE Exception(Raise(g.fs, "FileNotFoundError")))

MergeUploadChunk ==
    \E id \in UploadIds, i \in 0..MaxChunkIndex, data \in PathData :
        upload_chunk(Uid1, id, i, data)

MergeOpenRequest ==
    /\ CanStore
    /\ \E id \in UploadIds, name \in ChunkNames, total \in 1..MaxTotalChunks, uuid \in Uuids :
           merge_open(Uid1, id, name, total, EmptyPath, uuid)

MergeCopy ==
    \E k \in 1..Len(req), io_ok \in BOOLEAN : merge_copy(k, io_ok)

MergeCommit ==
    \E k \in 1..Len(req) : merge_commit(k)

MergeCancel ==
    \E id \in UploadIds : upload_cancel(Uid1, id)

NextMerge ==
    \/ MergeUploadChunk
    \/ MergeOpenRequest
    \/ MergeCopy
    \/ MergeCommit
    \/ MergeCancel

SpecMerge == Init /\ [][NextMerge]_vars

(***************************************************************************)
(* SpecFolders: files are stored in a folder, in a folder below it and in  *)
(* a sibling whose name begins with the folder's name, and folders are     *)
(* deleted by the paths a client may send for them.                        *)
(***************************************************************************)
FolderD2 == <<"d", "2">>

FolderS == <<"s">>

FolderPaths == {<<FolderD>>, <<FolderD, FolderS>>, <<FolderD2>>}

\* a folder named as the listing names it, and the same folder reached
\* through "."
DeletePaths == FolderPaths \cup {<<<<".">>, FolderD>>}

FolderUploadFile ==
    /\ CanStore
    /\ \E sub \in FolderPaths, data \in PathData, uuid \in Uuids :
           upload_file(Uid1, NameA, data, sub, uuid)

FolderDelete ==
    \E path \in DeletePaths : delete_folder(Uid1, path)

NextFolders ==
    \/ FolderUploadFile
    \/ FolderDelete

SpecFolders == Init /\ [][NextFolders]_vars

(***************************************************************************)
(* SpecShare: two users store files, issue and revoke share tokens, and    *)
(* anyone resolves a token.  uuid4 gives a token that no entry carries.    *)
(***************************************************************************)
Tokens == {<<"t", "1">>, <<"t", "2">>}

\* the paths share requests name: a file in the root, a file in a folder
\* and a file that was never stored
SharePaths == {<<NameA>>, <<FolderD, NameA>>, <<NameA1>>}

TokensInUse(f) ==
    {t \in Tokens : get_file_by_token(f, t).found # {}}

ShareUploadFile ==
    /\ CanStore
    /\ \E u \in Users, sub \in Subpaths, data \in PathData, uuid \in Uuids :
           upload_file(u, NameA, data, sub, uuid)

ShareFile ==
    \E u \in Users, path \in SharePaths, uuid \in Tokens \ TokensInUse(fs) :
        share_file(u, path, uuid)

UnshareFile ==
    \E u \in Users, path \in SharePaths : unshare_file(u, path)

PublicDownload ==
    \E token \in Tokens : public_download(token)

NextShare ==
    \/ ShareUploadFile
    \/ ShareFile
    \/ UnshareFile
    \/ PublicDownload

SpecShare == Init /\ [][NextShare]_vars

(***************************************************************************)
(* SpecAccounting: the user of the quota test uploads files of 20, 5 and 1 *)
(* bytes in any order, while user 1 sends chunks and merges them.          *)
(***************************************************************************)
\* a content of n bytes
Bytes(n) == [i \in 1..n |-> 0]

AccountData == {Bytes(1), Bytes(5), Bytes(20)}

AccountUploadFile ==
    /\ CanStore
    /\ \E data \in AccountData, uuid \in Uuids :
           upload_file(Uid2, NameA, data, EmptyPath, uuid)

AccountUploadChunk ==
    \E id \in UploadIds, i \in 0..MaxChunkIndex, data \in PathData :
        upload_chunk(Uid1, id, i, data)

AccountUploadMerge ==
    /\ CanStore
    /\ \E id \in UploadIds, total \in 1..MaxTotalChunks, sub \in ChunkSubpaths, uuid \in Uuids :
           upload_merge(Uid1, id, NameA, total, sub, uuid)

NextAccounting ==
    \/ AccountUploadFile
    \/ AccountUploadChunk
    \/ AccountUploadMerge

SpecAccounting == Init /\ [][NextAccounting]_vars

(***************************************************************************)
(* SpecReject: one user sends the requests that answer 'Quota exceeded.'   *)
(* or 'Invalid path': files and chunks up to and beyond the quota, and     *)
(* ".." as the folder of an upload, a merge, a new folder and a deletion.  *)
(***************************************************************************)
RejectUploadFile ==
    /\ CanStore
    /\ \E data \in DataSet, sub \in ChunkSubpaths, uuid \in Uuids :
           upload_file(Uid1, NameA, data, sub, uuid)

RejectUploadChunk ==
    \E i \in 0..MaxChunkIndex, data \in DataSet : upload_chunk(Uid1, <<"x">>, i, data)

RejectUploadMerge ==
    /\ CanStore
    /\ \E total \in 0..MaxTotalChunks, sub \in ChunkSubpaths, uuid \in Uuids :
           upload_merge(Uid1, <<"x">>, NameA, total, sub, uuid)

RejectCreateFolder ==
    \E sub \in ChunkSubpaths : create_folder(Uid1, sub, FolderD)

RejectDeleteFolder ==
    \E path \in {<<FolderD>>, <<DotDot>>} : delete_folder(Uid1, path)

NextReject ==
    \/ RejectUploadFile
    \/ RejectUploadChunk
    \/ RejectUploadMerge
    \/ RejectCreateFolder
    \/ RejectDeleteFolder

SpecReject == Init /\ [][NextReject]_vars

(***************************************************************************)
(* SpecTypes: the user of the tests uploads files named test.exe and a.t   *)
(* of 4 bytes and of 1 byte, and deletes them.                             *)
(***************************************************************************)
NameTestExe == <<"t", "e", "s", "t", ".", "e", "x", "e">>

TypeNames == {NameTestExe, NameA}

TypeData == {Bytes(4), Bytes(1)}

TypeUploadFile ==
    /\ CanStore
    /\ \E name \in TypeNames, data \in TypeData, sub \in Subpaths, uuid \in Uuids :
           upload_file(Uid2, name, data, sub, uuid)

TypeDeleteFile ==
    \E name \in TypeNames : delete_file(Uid2, name)

NextTypes ==
    \/ TypeUploadFile
    \/ TypeDeleteFile

SpecTypes == Init /\ [][NextTypes]_vars

(***************************************************************************)
(* SpecQuota: one user's requests served one after the other: uploads into *)
(* the root and a folder, chunks, merges, cancels, the dashboard with its   *)
(* sweep of the temp area, and deletions of files and folders.             *)
(***************************************************************************)
QuotaUploadFile ==
    /\ CanStore
    /\ \E data \in DataSet, sub \in Subpaths, uuid \in Uuids :
           upload_file(Uid1, NameA, data, sub, uuid)

QuotaUploadChunk ==
    \E i \in 0..MaxChunkIndex, data \in PathData : upload_chunk(Uid1, <<"x">>, i, data)

QuotaUploadMerge ==
    /\ CanStore
    /\ \E total \in 1..MaxTotalChunks, uuid \in Uuids :
           upload_merge(Uid1, <<"x">>, NameA, total, EmptyPath, uuid)

QuotaUploadCancel == upload_cancel(Uid1, <<"x">>)

QuotaDashboard == dashboard(Uid1, EmptyPath)

QuotaDeleteFile ==
    \E name \in {NameA, NameA1} : delete_file(Uid1, name)

QuotaDeleteFolder == delete_folder(Uid1, <<FolderD>>)

NextQuota ==
    \/ QuotaUploadFile
    \/ QuotaUploadChunk
    \/ QuotaUploadMerge
    \/ QuotaUploadCancel
    \/ QuotaDashboard
    \/ QuotaDeleteFile
    \/ QuotaDeleteFolder

SpecQuota == Init /\ [][NextQuota]_vars

(***************************************************************************)
(* SpecMeta: requests of one user that change the metadata document,       *)
(* served concurrently.  Each loads the document, changes the copy it      *)
(* holds and saves the copy; no lock is taken, so the steps of other       *)
(* requests may run between a request's load and its save.  req holds the  *)
(* requests with the document each one loaded.                             *)
(***************************************************************************)
MaxWriters == 3

NameB == <<"b", ".", "t">>

MetaNames == {NameA, NameB}

\* delete_user_file up to os.remove
DeleteFileRemove(f, user_id, name) ==
    Bind(get_user_upload_dir(f, user_id), LAMBDA d :
    Bind(PathJoin(UserDir(user_id), AsPath(safe_filename(name))), LAMBDA file_path :
        IF ~d.ok THEN Exception(d)
        ELSE IF ~Exists(d.fs, file_path) THEN Return(d.fs, RetFalse)
        ELSE
    Bind(Remove(d.fs, file_path), LAMBDA r :
        IF ~r.ok THEN Exception(r) ELSE Return(r.fs, RetTrue))))

\* a request that holds a loaded document: what it will do to key, the
\* digest and size of the bytes it uploads, and whether it has returned, and
\* with success
Writer(op, user_id, key, doc, data, token, pc, ok) ==
    [op |-> op, user |-> user_id, key |-> key, doc |-> doc, hash |-> calculate_file_hash(data),
     size |-> Len(data), token |-> token, pc |-> pc, ok |-> ok]

\* the token uuid4 gives the request that becomes the k-th of req
TokenOf(k) == <<"t">> \o IntToStr(k)

\* save_file up to and including load_metadata
meta_save_file(user_id, name, data, uuid) ==
    /\ Len(req) < MaxWriters
    /\ \E r \in {SaveFileWrite(fs, user_id, used[user_id], quota_bytes(user_id), name, data,
                               EmptyPath, uuid)} :
           IF r.status # "ok"
           THEN /\ fs' = r.fs
                /\ UNCHANGED users_db
                /\ req' = Append(req, Writer("save", user_id, AsPath(name), EmptyDoc, <<>>, NoToken,
                                             "done", FALSE))
                /\ UNCHANGED <<used, last>>
           ELSE \E lm \in {load_metadata(r.fs, user_id)} :
                /\ fs' = lm.fs
                /\ UNCHANGED users_db
                /\ req' = Append(req, Writer("save", user_id, MetaKey(EmptyPath, r.ret), lm.doc,
                                             data, NoToken, "loaded", FALSE))
                /\ UNCHANGED <<used, last>>

\* generate_share_token up to the test of the entry
meta_share(user_id, key) ==
    /\ Len(req) < MaxWriters
    /\ \E lm \in {load_metadata(fs, user_id)} :
           /\ fs' = lm.fs
           /\ UNCHANGED users_db
           /\ req' = Append(req, Writer("share", user_id, key, lm.doc, <<>>, TokenOf(Len(req) + 1),
                                        IF key \in DOMAIN lm.doc THEN "loaded" ELSE "done", FALSE))
           /\ UNCHANGED <<used, last>>

\* revoke_share_token up to the test of the entry
meta_revoke(user_id, key) ==
    /\ Len(req) < MaxWriters
    /\ \E lm \in {load_metadata(fs, user_id)} :
           /\ fs' = lm.fs
           /\ UNCHANGED users_db
           /\ req' = Append(req, Writer("revoke", user_id, key, lm.doc, <<>>, NoToken,
                                        IF key \in DOMAIN lm.doc THEN "loaded" ELSE "done", FALSE))
           /\ UNCHANGED <<used, last>>

\* delete_user_file up to the test of the entry; a file without an entry
\* is deleted at once, and the route recomputes used_bytes
meta_delete(user_id, name) ==
    /\ Len(req) < MaxWriters
    /\ \E r \in {DeleteFileRemove(fs, user_id, name)} :
           IF r.status # "ok" \/ r.ret = RetFalse
           THEN /\ fs' = r.fs
                /\ UNCHANGED users_db
                /\ req' = Append(req, Writer("delete", user_id, AsPath(name), EmptyDoc, <<>>, NoToken,
                                             "done", FALSE))
                /\ UNCHANGED <<used, last>>
           ELSE \E lm \in {load_metadata(r.fs, user_id)} :
                IF AsPath(safe_filename(name)) \in DOMAIN lm.doc
                THEN /\ fs' = lm.fs
                     /\ UNCHANGED users_db
                     /\ req' = Append(req, Writer("delete", user_id, AsPath(safe_filename(name)),
                                                  lm.doc, <<>>, NoToken, "loaded", FALSE))
                     /\ UNCHANGED <<used, last>>
                ELSE \E l \in {get_user_files(lm.fs, user_id, EmptyPath)} :
                     /\ fs' = l.fs
                     /\ UNCHANGED users_db
                     /\ req' = Append(req, Writer("delete", user_id, AsPath(safe_filename(name)),
                                                  lm.doc, <<>>, NoToken, "done", TRUE))
                     /\ used' = IF l.ok THEN [used EXCEPT ![user_id] = SumListed(l.files)] ELSE used
                     /\ UNCHANGED last

\* the document a request saves: the copy it loaded with its own change
Changed(w) ==
    IF w.op = "save" THEN (w.key :> Entry(w.hash, NoToken)) @@ w.doc
    ELSE IF w.op = "share" THEN [w.doc EXCEPT ![w.key] = Entry(w.doc[w.key].hash, w.token)]
    ELSE IF w.op = "revoke" THEN [w.doc EXCEPT ![w.key] = Entry(w.doc[w.key].hash, NoToken)]
    ELSE [key \in DOMAIN w.doc \ {w.key} |-> w.doc[key]]

\* save_metadata of the changed copy, the return, and the route's update
\* of used_bytes
meta_write(k) ==
    /\ req[k].pc = "loaded"
    /\ \E sm \in {save_metadata(fs, req[k].user, Changed(req[k]))} :
           IF ~sm.ok
           THEN /\ fs' = sm.fs
                /\ UNCHANGED users_db
                /\ req' = [req EXCEPT ![k].pc = "done"]
                /\ UNCHANGED <<used, last>>
           ELSE IF req[k].op = "delete"
           THEN \E l \in {get_user_files(sm.fs, req[k].user, EmptyPath)} :
                /\ fs' = l.fs
                /\ UNCHANGED users_db
                /\ req' = [req EXCEPT ![k].pc = "done", ![k].ok = TRUE]
                /\ used' = IF l.ok THEN [used EXCEPT ![req[k].user] = SumListed(l.files)] ELSE used
                /\ UNCHANGED last
           ELSE /\ fs' = sm.fs
                /\ UNCHANGED users_db
                /\ req' = [req EXCEPT ![k].pc = "done", ![k].ok = TRUE]
                /\ used' = IF req[k].op = "save"
                           THEN [used EXCEPT ![req[k].user] = @ + req[k].size]
                           ELSE used
                /\ UNCHANGED last

MetaSaveFile ==
    /\ CanStore
    /\ \E name \in MetaNames, data \in PathData, uuid \in Uuids :
           meta_save_file(Uid1, name, data, uuid)

MetaShare == \E name \in MetaNames : meta_share(Uid1, AsPath(name))

MetaRevoke == \E name \in MetaNames : meta_revoke(Uid1, AsPath(name))

MetaDelete == \E name \in MetaNames : meta_delete(Uid1, name)

MetaWrite == \E k \in 1..Len(req) : meta_write(k)

NextMeta ==
    \/ MetaSaveFile
    \/ MetaShare
    \/ MetaRevoke
    \/ MetaDelete
    \/ MetaWrite

SpecMeta == Init /\ [][NextMeta]_vars

(***************************************************************************)
(* SpecCrash: uploads and merges served one after the other, step by step, *)
(* any of which may stop for good after any of its steps (the process is   *)
(* killed).  req holds the requests, in the form of the merges of          *)
(* SpecMerge; a request that stopped has pc "crashed".                     *)
(***************************************************************************)
CrashNames == {NameA, MetadataName}

CrashSubpaths == {EmptyPath, <<FolderD>>, <<FolderBackslash>>}

\* no request is in progress
Idle == \A k \in 1..Len(req) : req[k].pc \in {"done", "crashed"}

\* an upload in progress, from the return of file.save on; written is what
\* file.save wrote of data
Upload(user_id, subpath, r, data, written) ==
    [pc |-> IF r.status # "ok" THEN "done"
            ELSE IF written = data THEN "meta" ELSE "crashed",
     user |-> user_id, upload_id |-> <<>>, total |-> 0, sub |-> subpath,
     used_bytes |-> used[user_id], name |-> r.ret, i |-> Len(written), content |-> data]

\* the first n items of a sequence
Prefix(seq, n) == [i \in 1..n |-> seq[i]]

\* save_file up to the end of file.save, which writes the first n bytes of
\* the file and, if these are not all, stops for good
save_write(user_id, name, data, subpath, uuid, n) ==
    /\ Len(req) < MaxMerges
    /\ \E r \in {SaveFileWrite(fs, user_id, used[user_id], quota_bytes(user_id), name,
                               Prefix(data, n), subpath, uuid)} :
           /\ fs' = r.fs
           /\ UNCHANGED users_db
           /\ req' = Append(req, Upload(user_id, subpath, r, data, Prefix(data, n)))
           /\ last' = IF r.status = "ok" THEN last
                      ELSE Response("upload_file", user_id, name, subpath, data, <<>>, -1, -1, r)
           /\ UNCHANGED used

\* save_file from load_metadata on, and the route's update of used_bytes
save_commit(k) ==
    /\ req[k].pc = "meta"
    /\ \E m \in {CommitMetadata(fs, req[k].user, req[k].sub, req[k].name,
                                calculate_file_hash(req[k].content))} :
           /\ fs' = m.fs
           /\ used' = IF m.status = "ok"
                      THEN [used EXCEPT ![req[k].user] = req[k].used_bytes + Len(req[k].content)]
                      ELSE used
           /\ UNCHANGED users_db
           /\ req' = [req EXCEPT ![k].pc = "done"]
           /\ last' = Response("upload_file", req[k].user, req[k].name, req[k].sub, req[k].content,
                               <<>>, -1, -1, m)

\* the process is killed while request k is between two steps
crash(k) ==
    /\ req[k].pc \in {"meta", "copy"}
    /\ UNCHANGED users_db
    /\ req' = [req EXCEPT ![k].pc = "crashed"]
    /\ UNCHANGED <<fs, used, last>>

CrashUploadChunk ==
    /\ Idle
    /\ \E i \in 0..MaxChunkIndex, data \in PathData : upload_chunk(Uid1, <<"x">>, i, data)

CrashSaveWrite ==
    /\ Idle
    /\ CanStore
    /\ \E name \in CrashNames, data \in DataSet, sub \in CrashSubpaths, uuid \in Uuids :
       \E n \in 0..Len(data) : save_write(Uid1, name, data, sub, uuid, n)

CrashSaveCommit == \E k \in 1..Len(req) : save_commit(k)

CrashMergeOpen ==
    /\ Idle
    /\ CanStore
    /\ \E name \in CrashNames, total \in 1..MaxTotalChunks, sub \in CrashSubpaths, uuid \in Uuids :
           merge_open(Uid1, <<"x">>, name, total, sub, uuid)

CrashMergeCopy == \E k \in 1..Len(req) : merge_copy(k, TRUE)

CrashMergeCommit == \E k \in 1..Len(req) : merge_commit(k)

Crash == \E k \in 1..Len(req) : crash(k)

NextCrash ==
    \/ CrashUploadChunk
    \/ CrashSaveWrite
    \/ CrashSaveCommit
    \/ CrashMergeOpen
    \/ CrashMergeCopy
    \/ CrashMergeCommit
    \/ Crash

SpecCrash == Init /\ [][NextCrash]_vars

(***************************************************************************)
(* SpecLegacy: a user whose store was written by an earlier version: the   *)
(* metadata document holds bare-string entries next to structured ones, or *)
(* is missing, or is not JSON.  The document is loaded, files are stored   *)
(* and shared.                                                             *)
(***************************************************************************)
\* what the document holds for a stored file: no entry, a bare digest, a
\* structured entry, a structured entry with a share token
LegacyKinds == {"none", "str", "dict", "shared"}

DocumentKinds == {"json", "missing", "corrupt"}

LegacyToken == <<"t", "0">>

LegacyValue(kind, data) ==
    IF kind = "str" THEN LegacyEntry(calculate_file_hash(data))
    ELSE IF kind = "nohash" THEN Entry(<<>>, NoToken)
    ELSE Entry(calculate_file_hash(data), IF kind = "shared" THEN LegacyToken ELSE NoToken)

\* the document with an entry of kind ka for a.t and of kind kb for b.t
LegacyDoc(ka, kb) ==
    [key \in {AsPath(NameA) : x \in {1} \cap {y \in {1} : ka # "none"}}
             \cup {AsPath(NameB) : x \in {1} \cap {y \in {1} : kb # "none"}} |->
        IF key = AsPath(NameA) THEN LegacyValue(ka, <<1>>) ELSE LegacyValue(kb, <<2, 3>>)]

\* file f with node written at path p
Written(f, p, node) == WriteFile(f, p, node).fs

\* the store of the user: a.t and b.t on disk when the document has an
\* entry for them, and the document
LegacyStore(ka, kb, document) ==
    Bind(get_user_upload_dir((<<>> :> DirNode) @@ (AbsComps(UPLOAD_FOLDER) :> DirNode), Uid1).fs,
         LAMBDA f0 :
    Bind(IF ka = "none" THEN f0
         ELSE Written(f0, PathJoin(UserDir(Uid1), AsPath(NameA)), RawFile(<<1>>)), LAMBDA f1 :
    Bind(IF kb = "none" THEN f1
         ELSE Written(f1, PathJoin(UserDir(Uid1), AsPath(NameB)), RawFile(<<2, 3>>)), LAMBDA f2 :
        IF document = "missing" THEN f2
        ELSE IF document = "corrupt" THEN Written(f2, get_metadata_path(Uid1), RawFile(<<7>>))
        ELSE Written(f2, get_metadata_path(Uid1), JsonFile(LegacyDoc(ka, kb))))))

InitLegacy ==
    \E ka \in LegacyKinds, kb \in {"none", "str"}, document \in DocumentKinds :
        /\ fs = LegacyStore(ka, kb, document)
        /\ used = [u \in Accounts |->
                      IF u = Uid1
                      THEN (IF ka = "none" THEN 0 ELSE 1) + (IF kb = "none" THEN 0 ELSE 2)
                      ELSE 0]
        /\ last = NoResponse
        /\ req = <<>>
        /\ users_db = InitialUsers

\* a call of load_metadata; the response holds the mapping it returns
LegacyLoad ==
    \E lm \in {load_metadata(fs, Uid1)} :
        Respond(lm.fs, used,
                Response("load_metadata", Uid1, <<>>, EmptyPath, <<>>, <<>>, -1, -1,
                         IF lm.ok THEN Return(lm.fs, lm.doc)
                         ELSE Exception(lm)))

LegacyUploadFile ==
    /\ CanStore
    /\ \E name \in MetaNames, uuid \in Uuids : upload_file(Uid1, name, <<1>>, EmptyPath, uuid)

LegacyShareFile ==
    \E name \in MetaNames, uuid \in Tokens \ TokensInUse(fs) :
        share_file(Uid1, AsPath(name), uuid)

LegacyDeleteFile == \E name \in MetaNames : delete_file(Uid1, name)

\* a public download under the token of the earlier version, under a token
\* of this version
LegacyPublicDownload == \E token \in {LegacyToken} \cup Tokens : public_download(token)

NextLegacy ==
    \/ LegacyLoad
    \/ LegacyPublicDownload
    \/ LegacyUploadFile
    \/ LegacyShareFile
    \/ LegacyDeleteFile

SpecLegacy == InitLegacy /\ [][NextLegacy]_vars

(***************************************************************************)
(* SpecDelete: files are stored at the top level and in folder d and are   *)
(* deleted, by the store's delete_user_file under a plain name and under a *)
(* folder-qualified path, and by the route under a plain name.             *)
(***************************************************************************)
NameDA == <<"d", "_", "a", ".", "t">>

\* the path of a.t in folder d, as the listing names it
NameInD == <<"d", "/", "a", ".", "t">>

DeleteNames == {NameA, NameDA, NameInD}

DeleteUploadFile ==
    /\ CanStore
    /\ \E name \in {NameA, NameDA}, sub \in Subpaths, data \in PathData, uuid \in Uuids :
           upload_file(Uid1, name, data, sub, uuid)

\* a call of delete_user_file; the response holds the value it returns
DeleteUserFile ==
    \E name \in DeleteNames : \E r \in {delete_user_file(fs, Uid1, name)} :
        Respond(r.fs, used,
                Response("delete_user_file", Uid1, name, EmptyPath, <<>>, <<>>, -1, -1, r))

\* POST /delete/<filename>: the route matches no name that holds "/"
DeleteRoute ==
    \E name \in {NameA, NameDA} : delete_file(Uid1, name)

NextDelete ==
    \/ DeleteUploadFile
    \/ DeleteUserFile
    \/ DeleteRoute

SpecDelete == Init /\ [][NextDelete]_vars

(***************************************************************************)
(* SpecVerify: verify_file_integrity on the store of SpecLegacy, where an  *)
(* entry may also lack its digest.  Files are stored, the bytes of stored  *)
(* files change on disk, files are deleted.                                *)
(***************************************************************************)
VerifyKinds == LegacyKinds \cup {"nohash"}

\* the paths verified: a.t, b.t and a.t in the folder the key of an upload
\* with current_path "d\e" names
VerifyPaths == {AsPath(NameA), AsPath(NameB), <<FolderD, <<"e">>, NameA>>}

InitVerify ==
    \E ka \in VerifyKinds, kb \in {"none", "str"}, document \in DocumentKinds :
        /\ fs = LegacyStore(ka, kb, document)
        /\ used = [u \in Accounts |->
                      IF u = Uid1
                      THEN (IF ka = "none" THEN 0 ELSE 1) + (IF kb = "none" THEN 0 ELSE 2)
                      ELSE 0]
        /\ last = NoResponse
        /\ req = <<>>
        /\ users_db = InitialUsers

\* a call of verify_file_integrity; the response holds the value it returns
VerifyFile ==
    \E path \in VerifyPaths : \E v \in {verify_file_integrity(fs, Uid1, path)} :
        Respond(v.fs, used,
                Response("verify_file_integrity", Uid1, <<>>, path, <<>>, <<>>, -1, -1, v))

VerifyUploadFile ==
    /\ CanStore
    /\ \E sub \in {EmptyPath, <<FolderBackslash>>}, uuid \in Uuids :
           upload_file(Uid1, NameA, <<1>>, sub, uuid)

VerifyTamper ==
    \E path \in VerifyPaths, data \in CorruptData \cup {<<1>>} : Tamper(Uid1, path, data)

VerifyDeleteFile == delete_file(Uid1, NameA)

NextVerify ==
    \/ VerifyFile
    \/ VerifyUploadFile
    \/ VerifyTamper
    \/ VerifyDeleteFile

SpecVerify == InitVerify /\ [][NextVerify]_vars

(***************************************************************************)
(* SpecNames: safe_filename applied to every name of up to MaxNameLen      *)
(* characters over a dot, a space, a separator, a letter, a composed       *)
(* non-ASCII letter and a combining accent.                                *)
(***************************************************************************)
MaxNameLen == 3

NameChars == {".", " ", "/", "e", "é", CombiningAcute}

NameInputs == UNION {[1..n -> NameChars] : n \in 0..MaxNameLen}

\* a call of safe_filename; the response holds the name it returns
Sanitize ==
    \E name \in NameInputs :
        Respond(fs, used,
                Response("safe_filename", <<>>, name, EmptyPath, <<>>, <<>>, -1, -1,
                         Return(fs, safe_filename(name))))

NextNames == Sanitize

SpecNames == Init /\ [][NextNames]_vars

(***************************************************************************)
(* SpecSweep: users 1 and 10 store files; user 1 sends chunks of two        *)
(* uploads and user 10 of one; delete_upload_chunks and cleanup_user_temp  *)
(* are called for either user.                                             *)
(***************************************************************************)
SweepIds == {<<"x">>, <<"y">>}

SweepUploadFile ==
    /\ CanStore
    /\ \E u \in Users, data \in PathData, uuid \in Uuids :
           upload_file(u, NameA, data, EmptyPath, uuid)

\* user 1 has two uploads in flight, user 10 the first chunk of one
SweepUploadChunk ==
    \E u \in Users, id \in SweepIds, i \in 0..MaxChunkIndex, data \in PathData :
        /\ u = Uid10 => (id = <<"x">> /\ i = 0)
        /\ upload_chunk(u, id, i, data)

\* a call of delete_upload_chunks; the response holds the value it returns
SweepCancel ==
    \E u \in Users, id \in SweepIds : \E r \in {delete_upload_chunks(fs, u, id)} :
        Respond(r.fs, used,
                Response("delete_upload_chunks", u, <<>>, EmptyPath, <<>>, id, -1, -1, r))

\* a call of cleanup_user_temp
SweepCleanup ==
    \E u \in Users : \E r \in {cleanup_user_temp(fs, u)} :
        Respond(r.fs, used,
                Response("cleanup_user_temp", u, <<>>, EmptyPath, <<>>, <<>>, -1, -1, r))

NextSweep ==
    \/ SweepUploadFile
    \/ SweepUploadChunk
    \/ SweepCancel
    \/ SweepCleanup

SpecSweep == Init /\ [][NextSweep]_vars

(***************************************************************************)
(* SpecRoot: users 1 and 10 store files in their roots and in folder d;    *)
(* user 1 deletes folders by paths that name d, the root itself ('.' and   *)
(* 'd/..') and the root of user 10 ('../10').                              *)
(***************************************************************************)
RootPaths == {<<FolderD>>, <<<<".">>>>, <<FolderD, DotDot>>, <<DotDot, Uid10>>}

RootUploadFile ==
    /\ CanStore
    /\ \E u \in Users, sub \in Subpaths, data \in PathData, uuid \in Uuids :
           upload_file(u, NameA, data, sub, uuid)

RootDeleteFolder ==
    \E path \in RootPaths : delete_folder(Uid1, path)

NextRoot ==
    \/ RootUploadFile
    \/ RootDeleteFolder

SpecRoot == Init /\ [][NextRoot]_vars

(***************************************************************************)
(* SpecServe: a user stores files and shares them, the bytes of stored     *)
(* files change on disk, and the files are downloaded by their owner and   *)
(* by the holders of share tokens.                                         *)
(***************************************************************************)
ServePaths == {AsPath(NameA), AsPath(NameA1)}

ServeUploadFile ==
    /\ CanStore
    /\ \E data \in DataSet, uuid \in Uuids : upload_file(Uid1, NameA, data, EmptyPath, uuid)

ServeShareFile ==
    \E path \in ServePaths, uuid \in Tokens \ TokensInUse(fs) : share_file(Uid1, path, uuid)

ServeTamper ==
    \E path \in ServePaths, data \in CorruptData : Tamper(Uid1, path, data)

ServeDownload ==
    \E path \in ServePaths : download_file(Uid1, path)

ServePublicDownload ==
    \E token \in Tokens : public_download(token)

NextServe ==
    \/ ServeUploadFile
    \/ ServeShareFile
    \/ ServeTamper
    \/ ServeDownload
    \/ ServePublicDownload

SpecServe == Init /\ [][NextServe]_vars

(***************************************************************************)
(* SpecAdmin: requests to the admin panel (src/app/routes_admin.py) by     *)
(* users 1 and 10, who are logged in at the same time.  A request runs     *)
(* restrict_admin and then its handler; the requests of different users    *)
(* interleave between the two.                                             *)
(***************************************************************************)
MaxAdminRequests == 2

AdminOps == {"toggle_admin", "delete_user"}

\* a request that has passed restrict_admin and waits for its handler
AdminRequest(caller, op, user_id) == [user |-> caller, op |-> op, target |-> user_id]

RemoveAt(seq, k) == SubSeq(seq, 1, k - 1) \o SubSeq(seq, k + 1, Len(seq))

\* the handler of request k has answered
AdminRespond(k, f, rows, r) ==
    /\ fs' = f
    /\ users_db' = rows
    /\ req' = RemoveAt(req, k)
    /\ last' = Response(req[k].op, req[k].user, <<>>, AsPath(req[k].target), <<>>, <<>>, -1, -1, r)
    /\ UNCHANGED used

\* before_request of the admin blueprint: a caller who is not logged in as
\* an admin is answered 404
restrict_admin(caller, op, user_id) ==
    /\ Len(req) < MaxAdminRequests
    /\ caller \in DOMAIN users_db
    /\ IF users_db[caller].is_admin
       THEN /\ UNCHANGED users_db
            /\ req' = Append(req, AdminRequest(caller, op, user_id))
            /\ UNCHANGED <<fs, used, last>>
       ELSE /\ UNCHANGED users_db
            /\ req' = req
            /\ last' = Response("restrict_admin", caller, <<>>, AsPath(user_id), <<>>, <<>>, -1, -1,
                                Error(fs, "NotFound"))
            /\ UNCHANGED <<fs, used>>

\* POST /toggle_admin/<user_id>
toggle_admin(k) ==
    /\ req[k].op = "toggle_admin"
    /\ IF req[k].target = req[k].user
       THEN AdminRespond(k, fs, users_db, Error(fs, "Cannot change your own admin status."))
       ELSE IF req[k].target \notin DOMAIN users_db
       THEN AdminRespond(k, fs, users_db, Error(fs, "NotFound"))
       ELSE AdminRespond(k, fs, [users_db EXCEPT ![req[k].target].is_admin = ~@],
                         Return(fs, RetTrue))

\* POST /delete_user/<user_id>: the directory of the user is removed, then
\* the row
delete_user(k) ==
    /\ req[k].op = "delete_user"
    /\ IF req[k].target = req[k].user
       THEN AdminRespond(k, fs, users_db, Error(fs, "Cannot delete your own account."))
       ELSE IF req[k].target \notin DOMAIN users_db
       THEN AdminRespond(k, fs, users_db, Error(fs, "NotFound"))
       ELSE IF req[k].target = RootAdmin
       THEN AdminRespond(k, fs, users_db, Error(fs, "Cannot delete the root admin account."))
       ELSE \E d \in {get_user_upload_dir(fs, req[k].target)} :
                IF ~d.ok THEN AdminRespond(k, d.fs, users_db, Exception(d))
                ELSE \E r \in {RmTree(d.fs, UserDir(req[k].target))} :
                         IF ~r.ok THEN AdminRespond(k, r.fs, users_db, Exception(r))
                         ELSE AdminRespond(k, r.fs,
                                           [u \in DOMAIN users_db \ {req[k].target} |-> users_db[u]],
                                           Return(r.fs, RetTrue))

RestrictAdmin ==
    \E caller \in Users, op \in AdminOps, user_id \in Accounts : restrict_admin(caller, op, user_id)

ToggleAdmin == \E k \in 1..Len(req) : toggle_admin(k)

DeleteUser == \E k \in 1..Len(req) : delete_user(k)

NextAdmin ==
    \/ RestrictAdmin
    \/ ToggleAdmin
    \/ DeleteUser

SpecAdmin == Init /\ [][NextAdmin]_vars

(***************************************************************************)
(* SpecInflight: one user with two uploads in flight.  Chunks are sent,    *)
(* re-sent, merged and cancelled, under well-formed upload ids and under   *)
(* ids that hold path separators or "..".                                  *)
(***************************************************************************)
GoodIds == {<<"x">>, <<"y">>}

\* '..', '../x' and 'a\b'
BadIds == {<<".", ".">>, <<".", ".", "/", "x">>, <<"a", "\\", "b">>}

InflightUploadFile ==
    /\ CanStore
    /\ \E data \in PathData, uuid \in Uuids : upload_file(Uid1, NameA, data, EmptyPath, uuid)

InflightUploadChunk ==
    \E id \in GoodIds \cup BadIds, i \in 0..MaxChunkIndex, data \in DataSet :
        upload_chunk(Uid1, id, i, data)

InflightUploadMerge ==
    /\ CanStore
    /\ \E id \in GoodIds \cup BadIds, total \in 1..MaxTotalChunks, uuid \in Uuids :
           upload_merge(Uid1, id, NameA, total, EmptyPath, uuid)

InflightUploadCancel ==
    \E id \in GoodIds \cup BadIds : upload_cancel(Uid1, id)

NextInflight ==
    \/ InflightUploadFile
    \/ InflightUploadChunk
    \/ InflightUploadMerge
    \/ InflightUploadCancel

SpecInflight == Init /\ [][NextInflight]_vars

(***************************************************************************)
(* Properties.  A property of one request is stated over the step the      *)
(* request takes: the unprimed variables are the state the request found,  *)
(* last' holds its inputs and its response.                                *)
(***************************************************************************)
\* the chunk files currently stored for user u, of all its uploads
ChunkFilesOf(f, u) ==
    {x \in DOMAIN f : IsPrefixSeq(<<<<"u">>, TempName, u>>, x) /\ f[x].k = "file"}

\* U.used_bytes + temp_usage(U) + b <= U.quota_bytes in the state the
\* request found
QuotaAdmits(u, b) ==
    used[u] + SumSizes(fs, ChunkFilesOf(fs, u)) + b <= quota_bytes(u)

\* C1 as the specification states it: an upload of b bytes succeeds if and
\* only if used_bytes + temp_usage + b <= quota_bytes, and otherwise it
\* answers 'Quota exceeded.' and writes nothing.
C1_SucceedsIffQuota ==
    [][last'.op = "upload_file" =>
           /\ (last'.status = "ok") <=> QuotaAdmits(last'.user, Len(last'.data))
           /\ last'.status # "ok" => last'.err = "Quota exceeded." /\ fs' = fs /\ used' = used]_vars

\* C1 (amended): an upload of b bytes of a named file succeeds if and only
\* if used_bytes + temp_usage + b <= quota_bytes and the target folder
\* passes the path check; when the quota does not admit it the answer is
\* 'Quota exceeded.' and nothing is written; when the quota admits it and
\* the folder is rejected the answer is 'Invalid path' and no file and no
\* metadata entry is written.  (An I/O error that escapes save_file is
\* neither outcome.)
C1_SucceedsIffQuotaAndPath ==
    [][last'.op = "upload_file" /\ last'.status # "exc" =>
           /\ (last'.status = "ok") <=>
                  /\ QuotaAdmits(last'.user, Len(last'.data))
                  /\ SecurityCheck(TargetDir(last'.user, last'.sub), UserDir(last'.user))
           /\ ~QuotaAdmits(last'.user, Len(last'.data)) =>
                  last'.err = "Quota exceeded." /\ fs' = fs /\ used' = used
           /\ (/\ QuotaAdmits(last'.user, Len(last'.data))
               /\ ~SecurityCheck(TargetDir(last'.user, last'.sub), UserDir(last'.user))) =>
                  /\ last'.err = "Invalid path"
                  /\ used' = used
                  /\ \A x \in DOMAIN fs' : fs'[x].k = "file" => x \in DOMAIN fs /\ fs[x] = fs'[x]]_vars

\* an upload was refused for the chunks in the temp area alone: without
\* them the quota would have admitted it
C1_Witness ==
    /\ last.op = "upload_file"
    /\ last.err = "Quota exceeded."
    /\ used[last.user] + Len(last.data) <= quota_bytes(last.user)
    /\ ChunkFilesOf(fs, last.user) # {}

\* the bytes the answered and committed requests of user u stored
RECURSIVE CommittedBytes(_, _)
CommittedBytes(u, i) ==
    IF i = 0 THEN 0
    ELSE (IF req[i].user = u /\ req[i].pc = "committed" THEN Len(req[i].data) ELSE 0)
         + CommittedBytes(u, i - 1)

\* C2: quota check and quota commit of one user are atomic: no other
\* request of the user is between its own check and commit while one is,
\* used_bytes never exceeds quota_bytes, and once every request is answered
\* used_bytes holds every increment.
C2_CheckAndCommitAtomic ==
    \A u \in Users :
        /\ Cardinality({i \in 1..Len(req) : req[i].user = u /\ req[i].pc = "saved"}) <= 1
        /\ used[u] <= quota_bytes(u)
        /\ (\A i \in 1..Len(req) : req[i].pc \in {"committed", "done"}) =>
               used[u] = CommittedBytes(u, Len(req))

\* the regular files under the root of user u, at any depth, other than
\* the metadata document
UserFiles(f, u) ==
    {x \in DOMAIN f : /\ IsPrefixSeq(<<<<"u">>, u>>, x)
                      /\ f[x].k = "file"
                      /\ x # <<<<"u">>, u, MetadataName>>}

\* C3: whenever no request is in progress, used_bytes of every user equals
\* the sum of the sizes of the user's files under the user's root, files in
\* subfolders included and the metadata document not counted.
C3_UsedEqualsDisk ==
    \A u \in Users : used[u] = SumSizes(fs, UserFiles(fs, u))

\* the step of a request that uploads a file: a plain upload or a merge
IsUpload == last'.op \in {"upload_file", "upload_merge"}

\* the canonical place of name in the folder the upload of this step targets
UploadTarget(name) ==
    AbsComps(PathJoin(TargetDir(last'.user, last'.sub), AsPath(name)))

\* a_k.t, the k-th name the upload of a.t falls back to
NumberedName(k) == <<"a", "_">> \o IntToStr(k) \o <<".", "t">>

\* the least k >= 1 whose name a_k.t is free in the target folder
FirstFree ==
    CHOOSE k \in 1..(Cardinality(DOMAIN fs) + 1) :
        /\ UploadTarget(NumberedName(k)) \notin DOMAIN fs
        /\ \A j \in 1..(k - 1) : UploadTarget(NumberedName(j)) \in DOMAIN fs

\* C4: an upload (save_file or merge_chunks) into a folder that already
\* holds the requested name never overwrites: when it succeeds the content
\* is stored under the first free name name_1.ext, name_2.ext, ..., which
\* no file had before; every stored file present before the request keeps
\* its content; and the request fails only for a reason other than the
\* clash (quota, a missing chunk, a rejected folder).
C4_NeverOverwrites ==
    [][IsUpload /\ last'.name = NameA /\ UploadTarget(NameA) \in DOMAIN fs =>
           /\ last'.status = "ok" =>
                  /\ last'.ret = NumberedName(FirstFree)
                  /\ UploadTarget(last'.ret) \in DOMAIN fs'
                  /\ fs'[UploadTarget(last'.ret)].k = "file"
                  /\ last'.op = "upload_file" => fs'[UploadTarget(last'.ret)].raw = last'.data
           /\ \A x \in UserFiles(fs, last'.user) : x \in DOMAIN fs' /\ fs'[x] = fs[x]
           /\ last'.status # "ok" =>
                  last'.err \in {"Quota exceeded.", "Missing chunk", "Invalid path"}]_vars

\* a merge found a.t taken and stored its content as a_1.t next to it
C4_Witness ==
    /\ last.op = "upload_merge"
    /\ last.status = "ok"
    /\ last.ret = NameA1
    /\ <<<<"u">>, Uid1, NameA>> \in DOMAIN fs
    /\ <<<<"u">>, Uid1, NameA1>> \in DOMAIN fs
    /\ fs[<<<<"u">>, Uid1, NameA>>].raw # fs[<<<<"u">>, Uid1, NameA1>>].raw

\* the places this step created, removed or changed
Touched ==
    {x \in DOMAIN fs \cup DOMAIN fs' :
        \/ (x \in DOMAIN fs) # (x \in DOMAIN fs')
        \/ x \in DOMAIN fs /\ x \in DOMAIN fs' /\ fs[x] # fs'[x]}

\* place x lies in the root directory of user u, by path components
InRootOf(u, x) == IsPrefixSeq(<<<<"u">>, u>>, x)

\* place x belongs to the temp area: UPLOAD_FOLDER/temp and what is below
InTempArea(x) == IsPrefixSeq(<<<<"u">>, TempName>>, x)

\* the requests that take a user-relative path
TakesPath ==
    last'.op \in {"upload_file", "upload_merge", "dashboard", "create_folder", "delete_folder"}

\* C5 (sandbox): a request of user U that takes a user-relative path either
\* rejects the path or touches only places inside U's own root directory
\* UPLOAD_FOLDER/<U.id> (a merge also its own chunk directory, which it
\* reaches by upload id, not by the path); it never touches the root
\* directory of another user.
C5_Sandbox ==
    [][TakesPath =>
           \A x \in Touched :
               \/ InRootOf(last'.user, x)
               \/ last'.op \in {"upload_merge", "dashboard"} /\ InTempArea(x)]_vars

\* the step of an upload whose folder path is path
UploadsInto(path) == IsUpload /\ last'.sub = path

\* the upload was rejected and stored nothing: it answers an error, and the
\* only places it made are the user's root directory and, for a merge, the
\* chunk directory
Rejected ==
    /\ last'.status = "err"
    /\ last'.err = "Invalid path" \/ (last'.op = "upload_file" /\ last'.err = "Quota exceeded.")
    /\ \A x \in Touched :
           \/ x = <<<<"u">>, last'.user>>
           \/ last'.op = "upload_merge" /\ InTempArea(x)

\* C6: for any user, an upload (save_file, merge_chunks) into
\* '../../etc/passwd' or into '/etc/passwd' is rejected, and one into
\* 'sub/../file.txt' passes the path check and, when it succeeds, stores
\* the file in file.txt directly inside the user's root.
C6_ReferencePaths ==
    [][/\ UploadsInto(PathUpEtcPasswd) => Rejected
       /\ UploadsInto(PathAbsEtcPasswd) => Rejected
       /\ UploadsInto(PathSubUpFile) =>
              /\ last'.err # "Invalid path"
              /\ SecurityCheck(TargetDir(last'.user, last'.sub), UserDir(last'.user))
              /\ AbsComps(TargetDir(last'.user, last'.sub)) = <<<<"u">>, last'.user, NameFileTxt>>
              /\ last'.status = "ok" =>
                     /\ <<<<"u">>, last'.user, NameFileTxt, last'.ret>> \in DOMAIN fs'
                     /\ fs'[<<<<"u">>, last'.user, NameFileTxt, last'.ret>>].k = "file"
                     /\ \A x \in Touched : InRootOf(last'.user, x) \/ InTempArea(x)]_vars

\* user 10 uploaded a.t into 'sub/../file.txt' and it is stored in
\* UPLOAD_FOLDER/10/file.txt
C6_Witness ==
    /\ last.op = "upload_file"
    /\ last.user = Uid10
    /\ last.sub = PathSubUpFile
    /\ last.status = "ok"
    /\ <<<<"u">>, Uid10, NameFileTxt, NameA>> \in DOMAIN fs
    /\ fs[<<<<"u">>, Uid10, NameFileTxt, NameA>>].raw = last.data

\* the digest the metadata document of user u stores for key, <<>> if none
StoredDigest(f, u, key) ==
    Bind(load_metadata(f, u).doc, LAMBDA doc :
        IF key \in DOMAIN doc THEN doc[key].hash ELSE <<>>)

\* the digest of the bytes on disk at the user-relative path key, <<>> if
\* no regular file is there
DiskDigest(f, u, key) ==
    IF IsFile(f, PathJoin(UserDir(u), key))
    THEN calculate_file_hash_from_path(f, PathJoin(UserDir(u), key))
    ELSE <<>>

\* the path a committed upload is downloaded by: folder path and stored name
DownloadPath == MetaKey(last'.sub, last'.ret)

\* C7 (integrity round trip): after an upload has committed a file, the
\* stored digest is the digest of the uploaded bytes and of the bytes on
\* disk, and verify_file_integrity on the download path returns true; when
\* the bytes of a file whose stored digest matched are changed on disk,
\* verify_file_integrity on that path returns false.
C7_IntegrityRoundTrip ==
    [][/\ last'.op = "upload_file" /\ last'.status = "ok" =>
              /\ StoredDigest(fs', last'.user, DownloadPath) = calculate_file_hash(last'.data)
              /\ DiskDigest(fs', last'.user, DownloadPath) = StoredDigest(fs', last'.user, DownloadPath)
              /\ verify_file_integrity(fs', last'.user, DownloadPath).ret = RetTrue
       /\ (/\ last'.op = "tamper"
           /\ StoredDigest(fs, last'.user, last'.sub) # <<>>
           /\ StoredDigest(fs, last'.user, last'.sub) = DiskDigest(fs, last'.user, last'.sub)) =>
              verify_file_integrity(fs', last'.user, last'.sub).ret = RetFalse]_vars

\* the place of chunk i of upload id of user u
ChunkAt(u, id, i) == <<<<"u">>, TempName, u, id, IntToStr(i)>>

\* the content the chunks 0..n-1 of an upload make up, in index order
RECURSIVE ContentOf(_, _, _, _)
ContentOf(f, u, id, n) ==
    IF n = 0 THEN <<>> ELSE ContentOf(f, u, id, n - 1) \o f[ChunkAt(u, id, n - 1)].raw

\* the store without the chunk directory of an upload
WithoutChunks(f, u, id) ==
    [x \in {y \in DOMAIN f : ~IsPrefixSeq(<<<<"u">>, TempName, u, id>>, y)} |-> f[x]]

\* the single upload a merge is compared with: save_file of the whole
\* content, on the store the merge found less the chunks
Direct ==
    save_file(WithoutChunks(fs, last'.user, last'.upload_id), last'.user, used[last'.user],
              quota_bytes(last'.user), last'.name,
              ContentOf(fs, last'.user, last'.upload_id, last'.total), last'.sub, <<>>)

\* what is below the root directory of user u
RootOf(f, u) == [x \in {y \in DOMAIN f : InRootOf(u, y)} |-> f[x]]

\* a merge of at least one chunk committed a file
Merged == last'.op = "upload_merge" /\ last'.status = "ok" /\ last'.total >= 1

\* C8 (chunked upload equivalence): when the chunks 0..N-1 of a content are
\* stored, in whatever order they were sent, a merge with total_chunks = N
\* commits what one save_file of the whole content commits: the same name,
\* the same bytes, the same stored digest, and the same user root
\* altogether.
C8_ChunkedEquivalence ==
    [][Merged =>
           /\ Direct.status = "ok"
           /\ Direct.ret = last'.ret
           /\ fs'[<<<<"u">>, last'.user, last'.ret>>].raw
                  = ContentOf(fs, last'.user, last'.upload_id, last'.total)
           /\ StoredDigest(fs', last'.user, DownloadPath)
                  = StoredDigest(Direct.fs, last'.user, DownloadPath)
           /\ StoredDigest(fs', last'.user, DownloadPath)
                  = calculate_file_hash(ContentOf(fs, last'.user, last'.upload_id, last'.total))
           /\ RootOf(fs', last'.user) = RootOf(Direct.fs, last'.user)]_vars

\* two chunks with different bytes were merged: chunk 0 held <<2, 3>> and
\* chunk 1 held <<1>>
C8_Witness ==
    /\ last.op = "upload_merge"
    /\ last.status = "ok"
    /\ last.total = 2
    /\ <<<<"u">>, Uid1, last.ret>> \in DOMAIN fs
    /\ fs[<<<<"u">>, Uid1, last.ret>>].raw = <<2, 3, 1>>

\* the indices in 0..total_chunks-1 for which the merge found no chunk file
Absent ==
    {i \in 0..(last'.total - 1) : ChunkAt(last'.user, last'.upload_id, i) \notin DOMAIN fs}

\* C9: a merge that finds some index in 0..total_chunks-1 without a chunk
\* file fails with 'Missing chunk i', i the smallest absent index, and
\* leaves the user's root as it was: no destination file, no metadata
\* entry, no change of used_bytes.
C9_MissingChunk ==
    [][last'.op = "upload_merge" /\ Absent # {} =>
           /\ last'.status = "err"
           /\ last'.err = "Missing chunk"
           /\ last'.n \in Absent
           /\ \A i \in Absent : last'.n <= i
           /\ RootOf(fs', last'.user) = RootOf(fs, last'.user)
           /\ used' = used]_vars

\* a merge of two chunks found chunk 1 but not chunk 0, beside a stored file
C9_Witness ==
    /\ last.op = "upload_merge"
    /\ last.total = 2
    /\ last.err = "Missing chunk"
    /\ last.n = 0
    /\ ChunkAt(Uid1, last.upload_id, 1) \in DOMAIN fs
    /\ UserFiles(fs, Uid1) # {}

\* C10: whatever the outcome of a merge, the chunk directory
\* temp/<user_id>/<upload_id> does not exist afterwards.
C10_ChunkDirRemoved ==
    [][last'.op = "upload_merge" /\ last'.err # "Invalid upload_id" =>
           ~Exists(fs', ChunkDir(last'.user, last'.upload_id))]_vars

\* the place of the destination file of merge m
Destination(m) == <<<<"u">>, m.user, m.name>>

\* C11 (merge is atomic in its output): once a merge that opened a
\* destination has returned or raised, the destination either holds the
\* concatenation of chunks 0..total_chunks-1 and has its metadata entry, or
\* does not exist.
C11_MergeAtomic ==
    \A k \in 1..Len(req) :
        (req[k].pc = "done" /\ req[k].name # None) =>
            \/ Destination(req[k]) \notin DOMAIN fs
            \/ /\ fs[Destination(req[k])].raw = req[k].content
               /\ StoredDigest(fs, req[k].user, MetaKey(req[k].sub, req[k].name))
                      = calculate_file_hash(req[k].content)

\* the metadata document of user u
MetadataOf(f, u) == load_metadata(f, u).doc

\* key lies under the folder a delete request names, by path components of
\* the places the two denote
KeyUnderFolder(u, folder_path, key) ==
    /\ IsPrefixSeq(AbsComps(TargetDir(u, folder_path)), AbsComps(TargetDir(u, key)))
    /\ AbsComps(TargetDir(u, folder_path)) # AbsComps(TargetDir(u, key))

\* the latest request deleted a folder
FolderDeleted == last'.op = "delete_folder" /\ last'.status = "ok" /\ last'.ret = RetTrue

\* C12 (folder deletion cascades exactly): a folder deletion removes every
\* metadata entry whose key lies under the folder, at any depth, and leaves
\* every other entry as it was, those of a sibling folder whose name starts
\* with the folder's name included.
C12_CascadeExact ==
    [][FolderDeleted =>
           MetadataOf(fs', last'.user)
               = [key \in {x \in DOMAIN MetadataOf(fs, last'.user) :
                             ~KeyUnderFolder(last'.user, last'.sub, x)}
                    |-> MetadataOf(fs, last'.user)[key]]]_vars

\* the token the entry of a path carried when the request arrived
TokenBefore == MetadataOf(fs, last'.user)[last'.sub].share_token

\* C13 (share token round trip): for a file that has a metadata entry,
\* generate_share_token returns a token that get_file_by_token resolves to
\* that user and path, and to nothing else; after revoke_share_token on the
\* path, the token it carried resolves to nothing.
C13_ShareRoundTrip ==
    [][/\ (last'.op = "share_file" /\ last'.sub \in DOMAIN MetadataOf(fs, last'.user)) =>
              /\ last'.status = "ok"
              /\ last'.ret \in Tokens
              /\ get_file_by_token(fs', last'.ret).found = {<<last'.user, last'.sub>>}
       /\ (/\ last'.op = "unshare_file"
           /\ last'.sub \in DOMAIN MetadataOf(fs, last'.user)
           /\ TokenBefore # NoToken) =>
              /\ last'.status = "ok"
              /\ get_file_by_token(fs', TokenBefore).found = {}]_vars

\* the token of user 10's file in folder d was revoked while user 1 keeps a
\* token on a file of the same name
C13_Witness ==
    /\ last.op = "unshare_file"
    /\ last.user = Uid10
    /\ last.sub = <<FolderD, NameA>>
    /\ last.status = "ok"
    /\ last.ret = RetTrue
    /\ \E t \in Tokens : get_file_by_token(fs, t).found = {<<Uid1, <<NameA>>>>}
    /\ \E t \in Tokens : get_file_by_token(fs, t).found = {}

\* the place of the file an accepted upload committed
CommittedAt == AbsComps(PathJoin(TargetDir(last'.user, last'.sub), AsPath(last'.ret)))

\* an upload of size bytes by the user of the quota test that finds
\* used_bytes at before
TestUpload(before, size) ==
    /\ last'.op = "upload_file"
    /\ last'.user = Uid2
    /\ used[Uid2] = before
    /\ Len(last'.data) = size

\* C14 (used_bytes accounting of uploads): a rejected upload leaves
\* used_bytes unchanged and an accepted save or merge adds exactly the size
\* of the committed file; with quota 10, an upload of 20 bytes at used 0 is
\* rejected, uploads of 5 bytes at used 0 and at used 5 are accepted and
\* bring used_bytes to 5 and to 10, and an upload of 1 byte at used 10 is
\* rejected.
C14_UploadAccounting ==
    [][/\ IsUpload /\ last'.status # "ok" => used' = used
       /\ IsUpload /\ last'.status = "ok" =>
              /\ CommittedAt \in DOMAIN fs'
              /\ CommittedAt \notin DOMAIN fs
              /\ used' = [used EXCEPT ![last'.user] = @ + NodeSize(fs'[CommittedAt])]
       /\ TestUpload(0, 20) => last'.status = "err" /\ used'[Uid2] = 0
       /\ TestUpload(0, 5) => last'.status = "ok" /\ used'[Uid2] = 5
       /\ TestUpload(5, 5) => last'.status = "ok" /\ used'[Uid2] = 10
       /\ TestUpload(10, 1) => last'.status = "err" /\ used'[Uid2] = 10]_vars

\* after two accepted uploads of 5 bytes the upload of 1 byte was rejected
C14_Witness ==
    /\ last.op = "upload_file"
    /\ last.user = Uid2
    /\ Len(last.data) = 1
    /\ last.err = "Quota exceeded."
    /\ used[Uid2] = 10
    /\ Len(fs[<<<<"u">>, Uid2, NameA>>].raw) = 5
    /\ Len(fs[<<<<"u">>, Uid2, NameA1>>].raw) = 5

\* the latest request sent a chunk under a well-formed upload id
ChunkSent == last'.op = "upload_chunk" /\ last'.upload_id \in GoodIds

\* the place the chunk of the latest request goes to
SentAt == ChunkAt(last'.user, last'.upload_id, last'.idx)

\* C15 (save_chunk charges the chunks in flight): a chunk of c bytes is
\* accepted if and only if used_bytes plus the bytes of all chunk files
\* stored for the user, over all its uploads, plus c is at most the quota;
\* an accepted chunk is stored and a rejected one changes nothing.
C15_ChunkQuota ==
    [][ChunkSent =>
           /\ (last'.status = "ok") <=> QuotaAdmits(last'.user, Len(last'.data))
           /\ last'.status = "ok" =>
                  /\ SentAt \in DOMAIN fs'
                  /\ fs'[SentAt].raw = last'.data
           /\ last'.status # "ok" =>
                  /\ last'.err = "Quota exceeded."
                  /\ fs' = fs
           /\ used' = used]_vars

\* a chunk was rejected although used_bytes plus its size fits the quota:
\* the chunks of the other upload use up the rest
C15_Witness ==
    /\ last.op = "upload_chunk"
    /\ last.upload_id = <<"y">>
    /\ last.err = "Quota exceeded."
    /\ used[Uid1] + Len(last.data) <= quota_bytes(Uid1)
    /\ ChunkFilesOf(fs, Uid1) # {}
    /\ \A x \in ChunkFilesOf(fs, Uid1) : x[4] = <<"x">>

\* the chunk directory of an upload: its chunk files with their bytes
ChunkDirOf(f, u, id) ==
    [x \in {y \in DOMAIN f : IsPrefixSeq(<<<<"u">>, TempName, u, id>>, y)} |-> f[x]]

\* the same chunk sent once more to the store the latest request left
SentAgain ==
    save_chunk(fs', last'.user, last'.upload_id, last'.idx, last'.data,
               used'[last'.user], quota_bytes(last'.user))

\* C16 (save_chunk is idempotent per index): a chunk sent under an index
\* that is already stored replaces that chunk; sending the same chunk a
\* second time leaves the chunk directory as the first call left it; the
\* chunks of other indices and other uploads are unchanged.
C16_ChunkIdempotent ==
    [][ChunkSent /\ last'.status = "ok" =>
           /\ fs'[SentAt].raw = last'.data
           /\ \A x \in DOMAIN fs : x # SentAt => x \in DOMAIN fs' /\ fs'[x] = fs[x]
           /\ SentAgain.status = "ok" => SentAgain.fs = fs'
           /\ ChunkDirOf(SentAgain.fs, last'.user, last'.upload_id)
                  = ChunkDirOf(fs', last'.user, last'.upload_id)]_vars

\* a chunk was sent under index 0 beside a stored chunk 1, and a second
\* send of it would be accepted
C16_Witness ==
    /\ last.op = "upload_chunk"
    /\ last.status = "ok"
    /\ last.idx = 0
    /\ ChunkAt(Uid1, last.upload_id, 1) \in DOMAIN fs
    /\ save_chunk(fs, Uid1, last.upload_id, 0, last.data, used[Uid1], quota_bytes(Uid1)).status = "ok"

\* C17 (malformed upload ids never reach the disk): upload_chunk,
\* upload_merge and upload_cancel answer 'Invalid upload_id' to an id that
\* holds a path separator or '..', and leave the store and used_bytes as
\* they were.
C17_BadUploadId ==
    [][(/\ last'.op \in {"upload_chunk", "upload_merge", "upload_cancel"}
        /\ last'.upload_id \in BadIds) =>
           /\ last'.status = "err"
           /\ last'.err = "Invalid upload_id"
           /\ fs' = fs
           /\ used' = used]_vars

\* a cancel under the id '../x' was refused while the upload x, which that
\* path would reach from another upload's directory, has chunks stored
C17_Witness ==
    /\ last.op = "upload_cancel"
    /\ last.upload_id = <<".", ".", "/", "x">>
    /\ last.err = "Invalid upload_id"
    /\ ChunkAt(Uid1, <<"x">>, 0) \in DOMAIN fs
    /\ <<<<"u">>, TempName, Uid1, <<"y">>>> \in DOMAIN fs

\* the latest request cancelled an upload under a well-formed id
Cancelled == last'.op = "upload_cancel" /\ last'.upload_id \in GoodIds

\* C18 (cancel is safe in every state): a cancel removes the chunk
\* directory and reports success when the directory exists, reports
\* not-found and changes nothing when it does not, never changes stored
\* files or used_bytes, and a second cancel reports not-found and changes
\* nothing.
C18_CancelSafe ==
    [][Cancelled =>
           /\ Exists(fs, ChunkDir(last'.user, last'.upload_id)) =>
                  /\ last'.status = "ok"
                  /\ last'.ret = RetTrue
                  /\ fs' = WithoutChunks(fs, last'.user, last'.upload_id)
           /\ ~Exists(fs, ChunkDir(last'.user, last'.upload_id)) =>
                  /\ last'.ret = RetFalse
                  /\ fs' = fs
           /\ used' = used
           /\ delete_upload_chunks(fs', last'.user, last'.upload_id).ret = RetFalse
           /\ delete_upload_chunks(fs', last'.user, last'.upload_id).fs = fs']_vars

\* an upload with both chunks stored was cancelled after another upload had
\* been merged into a file, whose chunks a merge has removed
C18_Witness ==
    /\ last.op = "upload_cancel"
    /\ last.upload_id = <<"x">>
    /\ last.ret = RetTrue
    /\ ~Exists(fs, ChunkDir(Uid1, <<"x">>))
    /\ ~Exists(fs, ChunkDir(Uid1, <<"y">>))
    /\ UserFiles(fs, Uid1) # {}
    /\ used[Uid1] > 0

\* the latest request was refused for the quota by save_file or save_chunk
QuotaRefused ==
    /\ last'.op \in {"upload_file", "upload_chunk"}
    /\ last'.status = "err"
    /\ last'.err = "Quota exceeded."

\* the latest request was refused for its folder by save_file, merge_chunks,
\* create_user_folder or delete_user_folder
PathRefused ==
    /\ last'.op \in {"upload_file", "upload_merge", "create_folder", "delete_folder"}
    /\ last'.status = "err"
    /\ last'.err = "Invalid path"

\* C19 (quota and path violations are rejected before any disk mutation):
\* a request answered 'Quota exceeded.' by save_file or save_chunk, or
\* 'Invalid path' by save_file, merge_chunks, create_user_folder or
\* delete_user_folder, has created, modified or removed no file, folder,
\* chunk or metadata entry.
C19_RejectedUntouched ==
    [][QuotaRefused \/ PathRefused => fs' = fs]_vars

\* the quota half of C19: what 'Quota exceeded.' leaves untouched
C19_QuotaRefusedUntouched ==
    [][QuotaRefused => fs' = fs]_vars

\* the path half of C19 for the files, chunks and metadata: 'Invalid path'
\* leaves every file as it was and adds none
C19_PathRefusedFilesUntouched ==
    [][PathRefused =>
           /\ \A x \in DOMAIN fs : x \in DOMAIN fs' /\ fs'[x] = fs[x]
           /\ \A x \in DOMAIN fs' \ DOMAIN fs : fs'[x].k = "dir"]_vars

\* the latest request uploaded a file named test.exe
ExeUploaded == last'.op = "upload_file" /\ last'.name = NameTestExe

\* C20 (file type check on upload): an upload of a file named test.exe,
\* a type that is not allowed, is answered 'Invalid file type.'; nothing is
\* stored and used_bytes is unchanged.
C20_ExeRejected ==
    [][ExeUploaded =>
           /\ last'.status = "err"
           /\ last'.err = "Invalid file type."
           /\ fs' = fs
           /\ used' = used]_vars

\* what the code does with test.exe: it is treated as any other name, and
\* when the quota admits it the file is stored and charged
C20_ExeStored ==
    [][ExeUploaded /\ QuotaAdmits(last'.user, Len(last'.data)) =>
           /\ last'.status = "ok"
           /\ used' = [used EXCEPT ![last'.user] = @ + Len(last'.data)]
           /\ \E x \in DOMAIN fs' \ DOMAIN fs : fs'[x].k = "file" /\ fs'[x].raw = last'.data]_vars

\* C21 (quota ceiling): after any sequence of requests of a user served
\* one after the other, used_bytes plus the bytes of the chunks in flight
\* is at most quota_bytes, and the user's committed files occupy at most
\* quota_bytes.
C21_QuotaCeiling ==
    \A u \in Users :
        /\ used[u] + SumSizes(fs, ChunkFilesOf(fs, u)) <= quota_bytes(u)
        /\ SumSizes(fs, UserFiles(fs, u)) <= quota_bytes(u)

\* the first half of C21 alone: used_bytes plus the chunks in flight
C21_UsedWithinQuota ==
    \A u \in Users : used[u] + SumSizes(fs, ChunkFilesOf(fs, u)) <= quota_bytes(u)

\* the second half of C21 alone: the bytes of the committed files
C21_FilesWithinQuota ==
    \A u \in Users : SumSizes(fs, UserFiles(fs, u)) <= quota_bytes(u)

\* the step every request other than the two deletions keeps: if
\* used_bytes plus the chunks in flight was within the quota, it still is
C21_CeilingOfUploads ==
    [][(last'.op \notin {"delete_file", "delete_folder"} /\ C21_UsedWithinQuota)
           => C21_UsedWithinQuota']_vars

\* the places of the chunks 0..total-1 the merge of the latest request names
MergeChunks == {ChunkAt(last'.user, last'.upload_id, i) : i \in 0..(last'.total - 1)}

\* the latest request is a merge that found every chunk it names
MergeComplete == last'.op = "upload_merge" /\ MergeChunks \subseteq DOMAIN fs

\* C22 (merge_chunks re-checks the quota against the committed size only):
\* a merge with all its chunks present is answered 'Quota exceeded.' if and
\* only if used_bytes plus the sizes of chunks 0..total_chunks-1 exceeds
\* quota_bytes, whatever else the user has in flight; the rejection removes
\* the chunk directory and creates no file and no metadata entry.
C22_MergeQuota ==
    [][MergeComplete =>
           /\ (last'.status = "err" /\ last'.err = "Quota exceeded.")
                  <=> used[last'.user] + SumSizes(fs, MergeChunks) > quota_bytes(last'.user)
           /\ last'.err = "Quota exceeded." =>
                  /\ fs' = WithoutChunks(fs, last'.user, last'.upload_id)
                  /\ used' = used]_vars

\* a merge of one chunk was refused for the quota: its chunk directory is
\* gone and no file a.t is in the root
C22_Witness ==
    /\ last.op = "upload_merge"
    /\ last.total = 1
    /\ last.err = "Quota exceeded."
    /\ ~Exists(fs, ChunkDir(Uid1, <<"x">>))
    /\ Destination([user |-> Uid1, name |-> NameA]) \notin DOMAIN fs

\* C23 (no stale metadata): in every state reached by uploads and
\* deletions, the folder path of a deletion given in any form the operation
\* accepts, every metadata entry of every user refers to a regular file
\* that exists at the entry's path.
C23_NoStaleMetadata ==
    \A u \in Users :
        \A key \in DOMAIN MetadataOf(fs, u) : IsFile(fs, PathJoin(UserDir(u), key))

\* the steps that keep C23: every request but a folder deletion whose path
\* is not written as the listing writes it
C23_KeptByListedPaths ==
    [][(~(last'.op = "delete_folder" /\ last'.sub \notin FolderPaths) /\ C23_NoStaleMetadata)
           => C23_NoStaleMetadata']_vars

\* every request has returned
AllReturned == \A k \in 1..Len(req) : req[k].pc = "done"

\* the kinds of request that undo the effect of a request of kind op on
\* the same path
Rivals(op) ==
    IF op = "save" THEN {"save", "delete"}
    ELSE IF op = "delete" THEN {"save"}
    ELSE IF op = "share" THEN {"share", "revoke", "delete"}
    ELSE {"share", "delete"}

\* no other request of req undoes what request k does to its path
Unrivalled(k) ==
    \A j \in 1..Len(req) :
        j # k => ~(req[j].key = req[k].key /\ req[j].op \in Rivals(req[k].op))

\* the metadata document reflects request k
Reflected(k) ==
    Bind(MetadataOf(fs, req[k].user), LAMBDA doc :
        IF req[k].op = "delete" THEN req[k].key \notin DOMAIN doc
        ELSE /\ req[k].key \in DOMAIN doc
             /\ req[k].op = "save" => doc[req[k].key].hash = req[k].hash
             /\ req[k].op = "share" => doc[req[k].key].share_token = req[k].token
             /\ req[k].op = "revoke" => doc[req[k].key].share_token = NoToken)

\* C24 (metadata updates are not lost): once concurrently issued uploads,
\* share, revoke and delete requests of one user have all returned, the
\* metadata document reflects every one that succeeded: the file of each
\* upload has its digest entry, each issued token is stored, each revoked
\* token is gone and each deleted file has no entry.  The statement is made
\* for the requests whose effect no other request on the same path undoes.
C24_NoLostUpdate ==
    AllReturned =>
        \A k \in 1..Len(req) : (req[k].ok /\ Unrivalled(k)) => Reflected(k)

\* the part of C24 that holds when requests are served one after the
\* other: a write that finds the document as its request loaded it leaves
\* every other entry as it was
C24_SerialWriteKeepsOthers ==
    [][\A k \in 1..Len(req) :
           (req[k].pc = "loaded" /\ req'[k].pc = "done" /\ req'[k].ok
                /\ MetadataOf(fs, req[k].user) = req[k].doc) =>
               \A key \in DOMAIN req[k].doc \ {req[k].key} :
                   /\ key \in DOMAIN MetadataOf(fs', req[k].user)
                   /\ MetadataOf(fs', req[k].user)[key] = req[k].doc[key]]_vars

\* the metadata entry of user u under key matches the file at the entry's
\* path: the file exists and its bytes have the digest the entry stores
EntryMatchesFile(u, key) ==
    /\ IsFile(fs, PathJoin(UserDir(u), key))
    /\ DiskDigest(fs, u, key) = MetadataOf(fs, u)[key].hash

\* C25 (metadata is written only after the physical write): in every state
\* reached by uploads and merges that may stop after any of their steps, a
\* metadata entry exists only for a file that is on disk, complete, with
\* the digest the entry stores; a file may be left without an entry, never
\* an entry without its fully written file.
C25_EntryOnlyAfterWrite ==
    \A u \in Users : \A key \in DOMAIN MetadataOf(fs, u) : EntryMatchesFile(u, key)

\* C25 for the uploads that neither go to a folder named with a backslash
\* nor are stored under the name of the metadata document
C25_OrdinaryUploads ==
    (\A k \in 1..Len(req) :
         req[k].sub # <<FolderBackslash>> /\ req[k].name # MetadataName)
        => C25_EntryOnlyAfterWrite

\* what is stored at the path of the metadata document of user u, if
\* anything
DocumentNode(f, u) ==
    IF Exists(f, get_metadata_path(u)) THEN f[Stat(f, get_metadata_path(u)).at] ELSE DirNode

\* the metadata document of user u is a file that holds JSON
Parseable(f, u) == DocumentNode(f, u).k = "file" /\ DocumentNode(f, u).json

\* entry e as load_metadata returns it
Canonical(e) == IF e.isstr THEN Entry(e.hash, NoToken) ELSE e

\* the latest request was a call of load_metadata
LoadedMetadata == last'.op = "load_metadata"

\* C26 (load_metadata never fails and returns a canonical mapping): a
\* missing or unparseable document gives the empty mapping and no
\* exception; a bare-string value v is returned as {hash: v, share_token:
\* null}, every structured entry as it is stored, and the converted
\* document is written back; a second load returns the same mapping and
\* writes nothing.
C26_LoadCanonical ==
    [][LoadedMetadata =>
           /\ last'.status = "ok"
           /\ ~Parseable(fs, last'.user) =>
                  /\ last'.ret = EmptyDoc
                  /\ fs' = fs
           /\ Parseable(fs, last'.user) =>
                  /\ DOMAIN last'.ret = DOMAIN DocumentNode(fs, last'.user).doc
                  /\ \A key \in DOMAIN last'.ret :
                         last'.ret[key] = Canonical(DocumentNode(fs, last'.user).doc[key])
                  /\ fs' = [fs EXCEPT ![Stat(fs, get_metadata_path(last'.user)).at] =
                                          JsonFile(last'.ret)]
           /\ load_metadata(fs', last'.user).ok
           /\ load_metadata(fs', last'.user).doc = last'.ret
           /\ load_metadata(fs', last'.user).fs = fs']_vars

\* a load has converted a bare-string entry next to an entry with a share
\* token, which it kept
C26_Witness ==
    /\ last.op = "load_metadata"
    /\ DOMAIN last.ret = {AsPath(NameA), AsPath(NameB)}
    /\ last.ret[AsPath(NameA)] = Entry(calculate_file_hash(<<1>>), LegacyToken)
    /\ last.ret[AsPath(NameB)] = Entry(calculate_file_hash(<<2, 3>>), NoToken)
    /\ DocumentNode(fs, Uid1).doc = last.ret

\* the entries that hold token t: pairs of user and path
Holders(f, t) ==
    {p \in UNION {{<<u, key>> : key \in DOMAIN MetadataOf(f, u)} : u \in Users} :
        MetadataOf(f, p[1])[p[2]].share_token = t}

\* no token is held by two entries
TokensDistinct(f) == \A t \in Tokens : Cardinality(Holders(f, t)) <= 1

\* the latest request issued a token for a path that has an entry
Issued ==
    /\ last'.op = "share_file"
    /\ last'.status = "ok"
    /\ last'.sub \in DOMAIN MetadataOf(fs, last'.user)

\* C27 (share tokens map 1:1 to (user, path)): in every reachable state no
\* two metadata entries of any users hold the same token, an entry holding
\* one token at most; a token issued for a path replaces the token the path
\* had, which from then on resolves to nothing.
C27_TokensOneToOne ==
    [][/\ TokensDistinct(fs')
       /\ Issued =>
              /\ Holders(fs', last'.ret) = {<<last'.user, last'.sub>>}
              /\ TokenBefore # NoToken =>
                     /\ last'.ret # TokenBefore
                     /\ Holders(fs', TokenBefore) = {}
                     /\ get_file_by_token(fs', TokenBefore).found = {}]_vars

\* both tokens are in use, by a file of user 1 and by a file of user 10
\* stored under the same path, and the latest request issued one of them
C27_Witness ==
    /\ last.op = "share_file"
    /\ last.status = "ok"
    /\ Holders(fs, last.ret) = {<<last.user, last.sub>>}
    /\ \E t \in Tokens \ {last.ret} :
           Holders(fs, t) = {<<CHOOSE u \in Users : u # last.user, last.sub>>}

\* the latest request was a public download
Resolved == last'.op = "public_download"

\* C28 (token resolution is a read-only scan): get_file_by_token, called
\* with a token that matches an entry or with one that matches none, leaves
\* every metadata document, file and directory as it was, whatever shape
\* the stored metadata records have.
C28_ScanReadOnly == [][Resolved => fs' = fs]_vars

\* the scan leaves a store as it was when no document holds a bare-string
\* entry; it creates and removes nothing, and what it changes is a metadata
\* document with such entries, which afterwards holds them converted
C28_ScanOfStructured ==
    [][Resolved =>
           /\ DOMAIN fs' = DOMAIN fs
           /\ \A p \in DOMAIN fs :
                  fs'[p] # fs[p] =>
                      /\ \E u \in Users : Parseable(fs, u) /\ p = Stat(fs, get_metadata_path(u)).at
                      /\ \E key \in DOMAIN fs[p].doc : fs[p].doc[key].isstr
                      /\ fs'[p] = JsonFile([key \in DOMAIN fs[p].doc |-> Canonical(fs[p].doc[key])])]_vars

\* a public download under a token no entry holds has converted the
\* bare-string entry of b.t in the stored document
C28_Rewritten ==
    /\ last.op = "public_download"
    /\ last.err = "NotFound"
    /\ Holders(fs, last.name) = {}
    /\ AsPath(NameB) \in DOMAIN DocumentNode(fs, Uid1).doc
    /\ ~DocumentNode(fs, Uid1).doc[AsPath(NameB)].isstr

\* the latest request was a call of delete_user_file
DeletedFile == last'.op = "delete_user_file"

\* the file the deleted path names
DeleteTarget == PathJoin(UserDir(last'.user), AsPath(last'.name))

\* every file and directory is as it was; the user's directory may have been
\* created by get_user_upload_dir
NothingChanged ==
    /\ \A p \in DOMAIN fs : p \in DOMAIN fs' /\ fs'[p] = fs[p]
    /\ \A p \in DOMAIN fs' \ DOMAIN fs : fs'[p] = DirNode /\ p = AbsComps(UserDir(last'.user))

\* C29 (delete_file removes the file and its entry): on an existing file,
\* at the top level or at a folder-qualified path, delete_file removes the
\* physical file and its metadata entry and reports success; on an absent
\* file it reports not-found and changes nothing; in neither case does the
\* store change used_bytes.
C29_DeleteFile ==
    [][DeletedFile =>
           /\ last'.status = "ok"
           /\ IsFile(fs, DeleteTarget) =>
                  /\ last'.ret = RetTrue
                  /\ ~Exists(fs', DeleteTarget)
                  /\ AsPath(last'.name) \notin DOMAIN MetadataOf(fs', last'.user)
           /\ ~Exists(fs, DeleteTarget) =>
                  /\ last'.ret = RetFalse
                  /\ NothingChanged
           /\ used' = used]_vars

\* the same for the names safe_filename leaves as they are
C29_DeleteTopLevel ==
    [][DeletedFile /\ safe_filename(last'.name) = last'.name =>
           /\ last'.status = "ok"
           /\ IsFile(fs, DeleteTarget) =>
                  /\ last'.ret = RetTrue
                  /\ ~Exists(fs', DeleteTarget)
                  /\ AsPath(last'.name) \notin DOMAIN MetadataOf(fs', last'.user)
                  /\ \A p \in DOMAIN fs' :
                         p # Stat(fs, get_metadata_path(last'.user)).at => fs'[p] = fs[p]
           /\ ~Exists(fs, DeleteTarget) =>
                  /\ last'.ret = RetFalse
                  /\ NothingChanged
           /\ used' = used]_vars

\* a.t of folder d is on disk with its entry after delete_user_file was
\* called with its path, which reported not-found
C29_FolderFileKept ==
    /\ last.op = "delete_user_file"
    /\ last.name = NameInD
    /\ last.ret = RetFalse
    /\ IsFile(fs, PathJoin(UserDir(Uid1), AsPath(NameInD)))
    /\ AsPath(NameInD) \in DOMAIN MetadataOf(fs, Uid1)

\* the latest request was a call of verify_file_integrity
Verified == last'.op = "verify_file_integrity"

\* the digest the stored document of user u holds for key, <<>> for a
\* document that is missing or cannot be parsed, for no entry and for an
\* entry without one
DigestOnRecord(f, u, key) ==
    IF Parseable(f, u) /\ key \in DOMAIN DocumentNode(f, u).doc
    THEN DocumentNode(f, u).doc[key].hash
    ELSE <<>>

\* C30 (verify_file_integrity): the call returns true whenever no digest is
\* stored for the path, whatever the bytes of the file; when a digest is
\* stored it returns true if and only if the file exists and the digest
\* recomputed from disk equals the stored one.
C30_VerifyIntegrity ==
    [][Verified =>
           /\ last'.status = "ok"
           /\ DigestOnRecord(fs, last'.user, last'.sub) = <<>> => last'.ret = RetTrue
           /\ DigestOnRecord(fs, last'.user, last'.sub) # <<>> =>
                  (last'.ret = RetTrue <=>
                       /\ IsFile(fs, PathJoin(UserDir(last'.user), last'.sub))
                       /\ Sha256Blocks(<<>>, fs[Stat(fs, PathJoin(UserDir(last'.user), last'.sub)).at].raw)
                              = DigestOnRecord(fs, last'.user, last'.sub))]_vars

\* a.t has a stored digest, its bytes on disk are others, and the call
\* returned false
C30_Witness ==
    /\ last.op = "verify_file_integrity"
    /\ last.sub = AsPath(NameA)
    /\ last.ret = RetFalse
    /\ DigestOnRecord(fs, Uid1, AsPath(NameA)) = calculate_file_hash(<<1>>)
    /\ IsFile(fs, PathJoin(UserDir(Uid1), AsPath(NameA)))
    /\ fs[Stat(fs, PathJoin(UserDir(Uid1), AsPath(NameA))).at].raw = <<0>>

\* a.t has an entry without a digest, its bytes on disk were changed, and
\* the call returned true
C30_NoDigest ==
    /\ last.op = "verify_file_integrity"
    /\ last.sub = AsPath(NameA)
    /\ last.ret = RetTrue
    /\ AsPath(NameA) \in DOMAIN DocumentNode(fs, Uid1).doc
    /\ DigestOnRecord(fs, Uid1, AsPath(NameA)) = <<>>
    /\ fs[Stat(fs, PathJoin(UserDir(Uid1), AsPath(NameA))).at].raw = <<0>>

\* the path has a stored digest and no file, and the call returned false
C30_NoFile ==
    /\ last.op = "verify_file_integrity"
    /\ last.ret = RetFalse
    /\ DigestOnRecord(fs, Uid1, last.sub) # <<>>
    /\ ~Exists(fs, PathJoin(UserDir(Uid1), last.sub))

\* the entries the stored document of user u holds, a bare digest read as
\* the entry it stands for; no entries for a document that is missing or
\* cannot be parsed
EntriesOnRecord(f, u) ==
    IF Parseable(f, u)
    THEN [key \in DOMAIN DocumentNode(f, u).doc |-> Canonical(DocumentNode(f, u).doc[key])]
    ELSE EmptyDoc

\* the stored document of user u holds a bare digest
HoldsBareDigest(f, u) ==
    Parseable(f, u) /\ \E key \in DOMAIN DocumentNode(f, u).doc : DocumentNode(f, u).doc[key].isstr

\* the latest request asked for a share token
ShareAsked == last'.op = "share_file"

C31_Refused ==
    /\ last.op = "share_file"
    /\ last.sub = AsPath(NameB)
    /\ last.err = "File not found"
    /\ AsPath(NameA) \in DOMAIN EntriesOnRecord(fs, Uid1)
    /\ AsPath(NameB) \notin DOMAIN EntriesOnRecord(fs, Uid1)

\* the latest request was a call of safe_filename
Sanitized == last'.op = "safe_filename"

\* the characters of a name that are neither forbidden nor dots of its
\* leading run, in their order
RECURSIVE Others(_)
Others(s) ==
    IF s = <<>> THEN <<>>
    ELSE IF Head(s) \in ForbiddenChars THEN Others(Tail(s))
    ELSE <<Head(s)>> \o Others(Tail(s))

\* the name with the characters safe_filename puts in place of forbidden
\* ones and of leading dots left out
RECURSIVE Unmarked(_)
Unmarked(s) ==
    IF s = <<>> THEN <<>>
    ELSE IF Head(s) = "_" THEN Unmarked(Tail(s))
    ELSE <<Head(s)>> \o Unmarked(Tail(s))

\* C32 (safe_filename sanitizes every input): the result holds none of the
\* characters / \ : * ? " < > |, does not begin with a dot, and holds every
\* other character of the input, non-ASCII ones included, in its composed
\* form and without the whitespace around the name.
C32_SafeFilename ==
    [][Sanitized =>
           /\ \A i \in 1..Len(last'.ret) : last'.ret[i] \notin ForbiddenChars
           /\ last'.ret # <<>> => Head(last'.ret) # "."
           /\ Unmarked(last'.ret) =
                  Others(LStripDots(RStripSpace(LStripSpace(Nfc(last'.name)))))]_vars

\* the result holds no forbidden character, and begins with a dot only for
\* an input that has whitespace before its first dot
C32_NoForbidden ==
    [][Sanitized =>
           /\ \A i \in 1..Len(last'.ret) : last'.ret[i] \notin ForbiddenChars
           /\ (last'.ret # <<>> /\ Head(last'.ret) = ".") =>
                  /\ Head(last'.name) \in Whitespace
                  /\ Head(LStripSpace(last'.name)) = "."
           /\ Unmarked(last'.ret) = Others(LStripDots(RStripSpace(LStripSpace(Nfc(last'.name)))))
                  \/ Head(LStripSpace(last'.name)) = "."]_vars

\* a name of a space and two dots was given and ".." came back
C32_DotsKept ==
    /\ last.op = "safe_filename"
    /\ last.name = <<" ", ".", ".">>
    /\ last.ret = <<".", ".">>

\* the store without the temp area of user u
WithoutTempOf(f, u) ==
    [x \in {y \in DOMAIN f : ~IsPrefixSeq(<<<<"u">>, TempName, u>>, y)} |-> f[x]]

\* C33 (cancel and the orphan sweep touch only what they name):
\* delete_upload_chunks(U, upload_id) removes the chunk directory of that
\* upload and nothing else, cleanup_user_temp(U) removes the temp area of U
\* and nothing else; committed files, metadata, used_bytes, the pending
\* uploads of other users and, for cancel, the other pending uploads of U
\* are as they were.
C33_OnlyWhatIsNamed ==
    [][/\ last'.op = "delete_upload_chunks" =>
              /\ last'.status = "ok"
              /\ fs' = WithoutChunks(fs, last'.user, last'.upload_id)
              /\ used' = used
       /\ last'.op = "cleanup_user_temp" =>
              /\ last'.status = "ok"
              /\ fs' = WithoutTempOf(fs, last'.user)
              /\ used' = used]_vars

\* user 1 has cancelled upload x; the chunk of upload y, the chunks of user
\* 10 and the stored file of user 1 are in place
C33_Witness ==
    /\ last.op = "delete_upload_chunks"
    /\ last.user = Uid1
    /\ last.upload_id = <<"x">>
    /\ last.ret = RetTrue
    /\ ChunkAt(Uid1, <<"x">>, 0) \notin DOMAIN fs
    /\ ChunkAt(Uid1, <<"y">>, 0) \in DOMAIN fs
    /\ ChunkAt(Uid10, <<"x">>, 0) \in DOMAIN fs
    /\ IsFile(fs, PathJoin(UserDir(Uid1), AsPath(NameA)))
    /\ used[Uid1] = 1

\* user 1's temp area was swept; the chunks of user 10 are in place
C33_Swept ==
    /\ last.op = "cleanup_user_temp"
    /\ last.user = Uid1
    /\ ~Exists(fs, TempDir(Uid1))
    /\ ChunkAt(Uid10, <<"x">>, 0) \in DOMAIN fs
    /\ ChunkAt(Uid10, <<"y">>, 1) \in DOMAIN fs

\* the chunk files of the store that the step has removed
ChunksGone ==
    {x \in DOMAIN fs \ DOMAIN fs' : InTempArea(x) /\ Len(x) = 5 /\ fs[x].k = "file"}

\* C34 (the orphan sweep reclaims only abandoned uploads): a chunk that was
\* accepted stays in the store until cancel or merge is called for its
\* upload, whatever other requests its user makes, dashboard loads
\* included; so a merge that follows the chunks 0..N-1 finds every one.
C34_ChunksStayUntilCalledFor ==
    [][\A x \in ChunksGone :
           /\ last'.op \in {"upload_cancel", "upload_merge"}
           /\ last'.user = x[3]
           /\ last'.upload_id = x[4]]_vars

\* the same with the dashboard load of the user as a third cause
C34_GoneBySweep ==
    [][\A x \in ChunksGone :
           /\ last'.op \in {"upload_cancel", "upload_merge", "dashboard"}
           /\ last'.user = x[3]
           /\ last'.op # "dashboard" => last'.upload_id = x[4]]_vars

\* C35 (a retried chunk is not counted twice against the quota): after
\* save_chunk has accepted a chunk, and with nothing else of the user
\* changed, the same index sent again with bytes of the same size is
\* accepted again.
C35_RetryAccepted ==
    [][ChunkSent /\ last'.status = "ok" => SentAgain.status = "ok"]_vars

\* the retry is accepted exactly when the quota has room for the chunk a
\* second time, beside every chunk stored and the first copy among them
C35_RetryCountsStoredCopy ==
    [][ChunkSent /\ last'.status = "ok" =>
           (SentAgain.status = "ok" <=>
                used'[last'.user] + SumSizes(fs', ChunkFilesOf(fs', last'.user))
                    + Len(last'.data) <= quota_bytes(last'.user))]_vars

\* a chunk of two bytes was accepted on an empty store and its retry is
\* answered 'Quota exceeded.'
C35_RetryRefused ==
    /\ last.op = "upload_chunk"
    /\ last.status = "ok"
    /\ Len(last.data) = 2
    /\ used[last.user] = 0
    /\ SumSizes(fs, ChunkFilesOf(fs, last.user)) = 2
    /\ save_chunk(fs, last.user, last.upload_id, last.idx, last.data, used[last.user],
                  quota_bytes(last.user)).err = "Quota exceeded."

\* the latest request is a merge that committed a file
MergeCommitted == last'.op = "upload_merge" /\ last'.status = "ok"

\* the chunk files stored for the upload the latest request names
StoredChunks ==
    {x \in DOMAIN fs : IsPrefixSeq(<<<<"u">>, TempName, last'.user, last'.upload_id>>, x)
                         /\ fs[x].k = "file"}

\* C36 (a successful merge consumes exactly the stored chunks): merge_chunks
\* succeeds only for total_chunks >= 1 and a chunk directory that holds
\* exactly the indices 0..total_chunks-1; the size of the committed file is
\* the number of bytes stored for the upload; no stored chunk is discarded
\* unmerged and no file is committed for total_chunks <= 0.
C36_MergeConsumesStored ==
    [][MergeCommitted =>
           /\ last'.total >= 1
           /\ StoredChunks = MergeChunks
           /\ Len(fs'[CommittedAt].raw) = SumSizes(fs, StoredChunks)]_vars

\* a successful merge found every chunk it names and committed their bytes
\* in index order
C36_MergeConsumesNamed ==
    [][MergeCommitted =>
           /\ MergeChunks \subseteq StoredChunks
           /\ fs'[CommittedAt].raw
                  = ContentOf(fs, last'.user, last'.upload_id, last'.total)
           /\ \A x \in StoredChunks : x \notin DOMAIN fs']_vars

\* a merge of no chunks committed an empty file
C36_EmptyCommitted ==
    /\ last.op = "upload_merge"
    /\ last.status = "ok"
    /\ last.total = 0
    /\ last.sub = EmptyPath
    /\ IsFile(fs, PathJoin(UserDir(last.user), AsPath(last.ret)))
    /\ fs[Stat(fs, PathJoin(UserDir(last.user), AsPath(last.ret))).at].raw = <<>>

\* the place of the metadata document of the user of the latest request
DocumentAt == AbsComps(get_metadata_path(last'.user))

\* C37 (user files never collide with the metadata document): an upload
\* whose sanitized name is metadata.json and whose target is the user's
\* root, also when no metadata document exists yet, never writes user
\* content to the path of the document, and the file it commits holds the
\* user's bytes after the metadata save that follows.
C37_NoCollision ==
    [][(IsUpload /\ last'.status = "ok" /\ safe_filename(last'.name) = MetadataName
            /\ AbsComps(TargetDir(last'.user, last'.sub)) = AbsComps(UserDir(last'.user))) =>
           /\ CommittedAt # DocumentAt
           /\ CommittedAt \in DOMAIN fs'
           /\ ~fs'[CommittedAt].json
           /\ last'.op = "upload_file" => fs'[CommittedAt].raw = last'.data]_vars

\* the same for an upload that finds a metadata document in place
C37_RenamedBesideDocument ==
    [][(IsUpload /\ last'.status = "ok" /\ safe_filename(last'.name) = MetadataName
            /\ AbsComps(TargetDir(last'.user, last'.sub)) = AbsComps(UserDir(last'.user))
            /\ DocumentAt \in DOMAIN fs) =>
           /\ CommittedAt # DocumentAt
           /\ CommittedAt \in DOMAIN fs'
           /\ ~fs'[CommittedAt].json
           /\ last'.op = "upload_file" => fs'[CommittedAt].raw = last'.data]_vars

\* an upload named metadata.json was accepted under that name, and the file
\* of that name is the document, with an entry for itself
C37_Overwritten ==
    /\ last.op = "upload_file"
    /\ last.status = "ok"
    /\ last.ret = MetadataName
    /\ DocumentNode(fs, last.user).json
    /\ AsPath(MetadataName) \in DOMAIN DocumentNode(fs, last.user).doc
    /\ DocumentNode(fs, last.user).doc[AsPath(MetadataName)].hash = calculate_file_hash(last.data)

\* the latest request named a folder that delete_user_folder accepted: the
\* path passed the security check and denotes a directory
FolderRemoved ==
    /\ last'.op = "delete_folder"
    /\ last'.err \notin {"Invalid path", "Folder not found", "Not a folder"}

\* the place the folder path of the latest request denotes
NamedFolder == AbsComps(TargetDir(last'.user, last'.sub))

\* place x lies in the subfolder the latest request names: below the place
\* of the path, which is below the root of the user
InNamedFolder(x) ==
    /\ IsPrefixSeq(AbsComps(UserDir(last'.user)), NamedFolder)
    /\ NamedFolder # AbsComps(UserDir(last'.user))
    /\ IsPrefixSeq(NamedFolder, x)

\* C38 (delete_user_folder removes only the named subfolder): for every
\* folder path it accepts, '.' and paths that normalize to the user's root
\* included, the root directory of the user, the metadata document and all
\* files outside the named subfolder exist afterwards.
C38_OnlyNamedFolder ==
    [][FolderRemoved =>
           /\ AbsComps(UserDir(last'.user)) \in DOMAIN fs'
           /\ DocumentAt \in DOMAIN fs => DocumentAt \in DOMAIN fs'
           /\ \A x \in DOMAIN fs : ~InNamedFolder(x) => x \in DOMAIN fs']_vars

\* the same for a path whose place is a folder below the root of the user,
\* of which nothing is left
C38_FolderBelowRoot ==
    [][(FolderRemoved /\ InNamedFolder(NamedFolder)) =>
           /\ AbsComps(UserDir(last'.user)) \in DOMAIN fs'
           /\ DocumentAt \in DOMAIN fs => DocumentAt \in DOMAIN fs'
           /\ \A x \in DOMAIN fs : ~InNamedFolder(x) => x \in DOMAIN fs'
           /\ \A x \in DOMAIN fs' : ~InNamedFolder(x)]_vars

\* the deletion of '.' was accepted, has ended in the error of the last
\* rmdir, and has left user 1 without files and without a metadata document
C38_RootEmptied ==
    /\ last.op = "delete_folder"
    /\ last.sub = <<<<".">>>>
    /\ last.err = "OSError"
    /\ ~Exists(fs, get_metadata_path(Uid1))
    /\ UserFiles(fs, Uid1) = {}
    /\ used[Uid1] = 0

\* the deletion of '../10' by user 1 was accepted and the root of user 10,
\* who has used_bytes 2, is gone
C38_NeighbourRemoved ==
    /\ last.op = "delete_folder"
    /\ last.user = Uid1
    /\ last.sub = <<DotDot, Uid10>>
    /\ last.status = "ok"
    /\ ~Exists(fs, UserDir(Uid10))
    /\ used[Uid10] = 2

\* the latest request was a download that sent the bytes of a file
Served ==
    /\ last'.op \in {"download_file", "public_download"}
    /\ last'.status = "ok"

\* the bytes on disk at the path of user u agree with the digest on record,
\* or no digest is on record
DigestHolds(f, u, key) ==
    \/ DigestOnRecord(f, u, key) = <<>>
    \/ /\ IsFile(f, PathJoin(UserDir(u), key))
       /\ Sha256Blocks(<<>>, f[Stat(f, PathJoin(UserDir(u), key)).at].raw)
              = DigestOnRecord(f, u, key)

\* C39 (a file that does not match its digest is never served): the
\* download of the owner and the public download by share token send the
\* bytes of a file only when verify_file_integrity holds for that user and
\* path.
C39_ServedOnlyVerified ==
    [][Served => DigestHolds(fs, last'.user, last'.sub)]_vars

\* the same for the download of the owner alone
C39_OwnerDownloadVerified ==
    [][(Served /\ last'.op = "download_file") =>
           DigestHolds(fs, last'.user, last'.sub)]_vars

\* a public download has sent a file whose bytes were changed on disk and
\* differ from the digest on record
C39_ServedCorrupt ==
    /\ last.op = "public_download"
    /\ last.status = "ok"
    /\ DigestOnRecord(fs, last.user, last.sub) # <<>>
    /\ fs[Stat(fs, PathJoin(UserDir(last.user), last.sub)).at].raw = <<0>>
    /\ ~DigestHolds(fs, last.user, last.sub)

\* C40 (administrators cannot remove the last admin): toggle_admin and
\* delete_user refuse the caller's own id, and from a state with an admin
\* every interleaving of admin-panel requests by admins who are logged in
\* at the same time leaves a user with is_admin = true.
C40_AdminRemains ==
    \E u \in DOMAIN users_db : users_db[u].is_admin

\* no handler changes or removes the row of its caller, and a request that
\* names its caller is refused
C40_OwnRowKept ==
    [][last'.op \in AdminOps =>
           /\ last'.user \in DOMAIN users_db =>
                  /\ last'.user \in DOMAIN users_db'
                  /\ users_db'[last'.user] = users_db[last'.user]
           /\ last'.sub = AsPath(last'.user) =>
                  /\ last'.status = "err"
                  /\ users_db' = users_db]_vars

\* users 1 and 10 have each taken the admin status of the other; no row
\* has is_admin
C40_NoAdminLeft ==
    /\ last.op = "toggle_admin"
    /\ last.status = "ok"
    /\ DOMAIN users_db = Accounts
    /\ \A u \in Accounts : ~users_db[u].is_admin

====
